---- MODULE Spec2Model ----
(***************************************************************************)
(* Fleet telemetry ingestion and trip reconciliation of the Azuga webhook  *)
(* path (AzugaService.processWebhookData and the handlers it calls), with  *)
(* the dispatch layer's trip status update (TrackingGateway) as the other  *)
(* writer of the trip table.                                               *)
(*                                                                         *)
(* Units: an event's raw odometer and trip distance are in tenths of a     *)
(* kilometre, stored odometers are whole miles, tripMiles is in tenths of  *)
(* a mile, latitudes and longitudes are whole degrees, event timestamps    *)
(* are epoch seconds and stored times epoch milliseconds.                  *)
(***************************************************************************)
EXTENDS Integers, Sequences, FiniteSets, TLC

\* ------------------------------------------------------------------ values

\* null / undefined of the source, for numeric and date fields
Null == -999

\* the longest delivery (items of one webhook payload) the model draws
MaxBatch == 2

\* how many items the webhook requests take between them
MaxEvents == 2

\* how many writes the dispatch layer makes
MaxDispatch == 2

\* JavaScript truthiness of a nullable number: null, undefined and 0 are falsy
Falsy(x) == x = Null \/ x = 0

\* a || b on strings: the empty (or absent) string is falsy
OrStr(a, b) == IF a # "" THEN a ELSE b

\* the empty updateData object ({})
EmptyUpd == [f \in {} |-> 0]

\* ------------------------------------------------------- unit conversion

\* variant: the fraction of a mile is cut off
ToMilesRounded_Truncated(raw10) == (raw10 * 621371) \div 10000000

\* round(raw km * KM_TO_MILES), for a raw value in tenths of a kilometre
ToMilesRounded(raw10) == (raw10 * 621371 + 5000000) \div 10000000

\* (raw km * KM_TO_MILES).toFixed(1), as tenths of a mile
ToMilesTenths(raw10) == (raw10 * 621371 + 500000) \div 1000000

normalizeOdometerMiles(value) ==
    IF value = Null \/ value <= 0 THEN Null ELSE ToMilesRounded(value)

normalizeDistanceMiles(value) ==
    IF value = Null \/ value <= 0 THEN Null ELSE ToMilesTenths(value)

\* the longest text the model passes to the normalize functions
MaxText == 3

\* the decimal digits, by their value
DigitChars == <<"1", "2", "3", "4", "5", "6", "7", "8", "9">>
Digits == {"0"} \cup {DigitChars[i] : i \in 1..9}
DigitOf(ch) == IF ch = "0" THEN 0 ELSE CHOOSE i \in 1..9 : DigitChars[i] = ch

\* the characters of the texts the model draws
Chars == {"0", "1", ".", "-", "k"}

\* the texts of at most MaxText characters
Texts == UNION {[1..n -> Chars] : n \in 0..MaxText}

RECURSIVE Pow10(_)
Pow10(n) == IF n = 0 THEN 1 ELSE 10 * Pow10(n - 1)

\* the longest run of digits the text starts with
RECURSIVE DigitPrefix(_)
DigitPrefix(text) ==
    IF text # <<>> /\ Head(text) \in Digits
    THEN <<Head(text)>> \o DigitPrefix(Tail(text))
    ELSE <<>>

\* the number a run of digits denotes
RECURSIVE DigitsValue(_)
DigitsValue(digits) ==
    IF digits = <<>> THEN 0
    ELSE 10 * DigitsValue(SubSeq(digits, 1, Len(digits) - 1))
             + DigitOf(digits[Len(digits)])

\* the text after its first n characters
Drop(text, n) == SubSeq(text, n + 1, Len(text))

\* how parseFloat reads a text: an optional sign, digits, and a point with
\* digits, as far as they go; what follows is ignored. The number read is
\* m / 10^d; used is the number of characters read; with no digit there is
\* no number (NaN).
ReadFloat(text) ==
    LET negative == text # <<>> /\ Head(text) = "-"
        unsigned == IF negative THEN Tail(text) ELSE text
        int == DigitPrefix(unsigned)
        rest == Drop(unsigned, Len(int))
        point == rest # <<>> /\ Head(rest) = "."
        frac == IF point THEN DigitPrefix(Tail(rest)) ELSE <<>>
        magnitude == DigitsValue(int) * Pow10(Len(frac)) + DigitsValue(frac)
    IN [nan |-> int = <<>> /\ frac = <<>>,
        m |-> IF negative THEN 0 - magnitude ELSE magnitude,
        d |-> Len(frac),
        used |-> (IF negative THEN 1 ELSE 0) + Len(int)
                     + (IF point /\ (int # <<>> \/ frac # <<>>) THEN 1 + Len(frac) ELSE 0)]

\* not a number
NaN == [nan |-> TRUE, m |-> 0, d |-> 0, used |-> 0]

\* parseFloat(value?.toString?.() ?? value): a number is read back from its
\* own digits, a text as far as it is a number, and null, undefined, a
\* boolean and a plain object give NaN
parseFloat(v) ==
    IF v.type = "number" THEN [nan |-> FALSE, m |-> v.tenths, d |-> 1, used |-> 0]
    ELSE IF v.type = "string" THEN ReadFloat(v.text)
    ELSE NaN

\* Math.round(raw * KM_TO_MILES), for raw = m / 10^d
ToMilesRoundedOf(m, d) == (m * 621371 + 5 * Pow10(d + 5)) \div Pow10(d + 6)

\* parseFloat((raw * KM_TO_MILES).toFixed(1)), as tenths of a mile, for
\* raw = m / 10^d
ToMilesTenthsOf(m, d) == (m * 621371 + 5 * Pow10(d + 4)) \div Pow10(d + 5)

\* normalizeOdometerMiles and normalizeDistanceMiles for a value of any type
\* (the two above take the number already read, in tenths of a kilometre)
normalizeOdometerMilesOf(v) ==
    LET raw == parseFloat(v)
    IN IF raw.nan \/ raw.m <= 0 THEN Null ELSE ToMilesRoundedOf(raw.m, raw.d)

normalizeDistanceMilesOf(v) ==
    LET raw == parseFloat(v)
    IN IF raw.nan \/ raw.m <= 0 THEN Null ELSE ToMilesTenthsOf(raw.m, raw.d)

\* a timestamp text no parse accepts ('soon'); new Date of it is an Invalid
\* Date, whose getTime() is NaN
InvalidTime == -998

\* the first usable timestamp candidate of the event, as epoch milliseconds;
\* a text that is neither digits nor a date is passed over
parseAzugaTimestamp(e) ==
    IF Falsy(e.timestamp) \/ e.timestamp = InvalidTime THEN Null
    ELSE IF e.timestamp < 1000000 THEN e.timestamp * 1000 ELSE e.timestamp

\* ------------------------------------------------------------ the store

TripIds == {"t1", "t2"}

TripStatuses == {"SCHEDULED", "EN_ROUTE", "ARRIVED", "PICKED_UP", "COMPLETED", "CANCELLED"}

\* the statuses updateActiveTripOdometer and handleTripEndEvent select on
ActiveStatuses == {"EN_ROUTE", "ARRIVED", "PICKED_UP"}

\* the vehicle table: its keys never change on the webhook path
DbVehicleIds == {"dbv1", "dbv2"}
DbVin == [v \in DbVehicleIds |-> IF v = "dbv1" THEN "V1" ELSE "V2"]
DbPlate == [v \in DbVehicleIds |-> IF v = "dbv1" THEN "P1" ELSE "P2"]

\* the keys the vehicle cache can hold in this model
CacheKeys == {"V1", "V2", "VX"}

\* a trip row as TripsService.create leaves it, assigned to vehicle v
NewTrip(v) ==
    [status |-> "SCHEDULED", vehicleId |-> v,
     pickupOdometer |-> Null, dropoffOdometer |-> Null, tripMiles |-> Null,
     tripStartTime |-> Null, actualDropoffTime |-> Null,
     tripStartLat |-> Null, tripStartLng |-> Null,
     pickupLat |-> Null, pickupLng |-> Null,
     completedLat |-> Null, completedLng |-> Null,
     dropoffLat |-> Null, dropoffLng |-> Null]

\* the fields of a trip row other than its status
TripDataFields ==
    {"pickupOdometer", "dropoffOdometer", "tripMiles", "tripStartTime",
     "actualDropoffTime", "tripStartLat", "tripStartLng", "pickupLat",
     "pickupLng", "completedLat", "completedLng", "dropoffLat", "dropoffLng"}

\* variant: the write replaces the record, the fields it was not given
\* falling back to their defaults
PrismaUpdate_Replaces(row, data) ==
    [f \in DOMAIN row |-> IF f \in DOMAIN data THEN data[f]
                          ELSE IF f = "status" THEN "SCHEDULED"
                          ELSE IF f = "vehicleId" THEN row[f]
                          ELSE Null]

\* prisma.<table>.update({where: {id}, data}): assigns the fields of data only
PrismaUpdate(row, data) ==
    [f \in DOMAIN row |-> IF f \in DOMAIN data THEN data[f] ELSE row[f]]

\* ------------------------------------------------------- webhook items

\* an item of a webhook payload that is an object; absent string fields are
\* "", absent numeric fields are Null
BaseEv ==
    [kind |-> "object", eventType |-> "",
     vehicleId |-> "", serialNumber |-> "", serialNum |-> "", vin |-> "",
     assetId |-> "", deviceId |-> "", vehicleName |-> "",
     odometer |-> Null, tripDistance |-> Null,
     latitude |-> Null, longitude |-> Null, speed |-> Null,
     address |-> "", ignition |-> "", timestamp |-> Null]

\* an item that is null (or any non-object): reading a property of it throws
NullItem == [BaseEv EXCEPT !.kind = "null"]

\* event.ignition carrying a boolean instead of a string
NonString == "<true>"

\* event.eventType || event.event_type || event.type
EventTypeOf(e) == e.eventType

\* variant: the Hard Brake cases sit in the Trip End group of the switch
HandlerOf_HardBrakeEndsTrip(eventType) ==
    CASE eventType \in {"Trip Start", "TRIP_START"} -> "tripStart"
      [] eventType \in {"Trip End", "TRIP_END", "Hard Brake", "HARD_BRAKE"} -> "tripEnd"
      [] eventType \in {"Trip Address", "TRIP_ADDRESS", "GPS MESSAGE", "GPS_MESSAGE"} -> "vehicle"
      [] eventType \in {"Over Speeding", "OVER_SPEEDING", "Hard Acceleration",
                        "HARD_ACCELERATION"} -> "safety"
      [] OTHER -> "vehicle"

\* the switch of processWebhookData: exact, case-sensitive spellings
HandlerOf(eventType) ==
    CASE eventType \in {"Trip Start", "TRIP_START"} -> "tripStart"
      [] eventType \in {"Trip End", "TRIP_END"} -> "tripEnd"
      [] eventType \in {"Trip Address", "TRIP_ADDRESS", "GPS MESSAGE", "GPS_MESSAGE"} -> "vehicle"
      [] eventType \in {"Over Speeding", "OVER_SPEEDING", "Hard Acceleration",
                        "HARD_ACCELERATION", "Hard Brake", "HARD_BRAKE"} -> "safety"
      [] OTHER -> "vehicle"

\* the vehicle identifier as handleTripStartEvent and handleTripEndEvent read it
TripVehicleKey(e) ==
    OrStr(e.vehicleId, OrStr(e.serialNumber, OrStr(e.vin, e.assetId)))

\* the vehicle identifier as processVehicleEvent reads it
CacheVehicleKey(e) ==
    OrStr(e.vehicleId, OrStr(e.serialNumber, OrStr(e.serialNum,
        OrStr(e.vin, OrStr(e.assetId, e.deviceId)))))

\* parseFloat(event.latitude || ... || 0), and likewise longitude and speed
LatitudeOf(e) == IF Falsy(e.latitude) THEN 0 ELSE e.latitude
LongitudeOf(e) == IF Falsy(e.longitude) THEN 0 ELSE e.longitude
SpeedOf(e) == IF Falsy(e.speed) THEN 0 ELSE e.speed

\* event.vehicleName || event.name || event.assetName || vehicleId
VehicleNameOf(e) == OrStr(e.vehicleName, CacheVehicleKey(e))

\* event.ignitionStatus || event.ignition || (derived from type and speed)
IgnitionOf(e) ==
    IF e.ignition # "" THEN e.ignition
    ELSE IF e.eventType = "IGNITION_ON" THEN "Ignition On"
    ELSE IF e.eventType = "IGNITION_OFF" THEN "Ignition Off"
    ELSE IF SpeedOf(e) > 0 THEN "Ignition On" ELSE "Ignition Off"

\* ignitionStatus.toLowerCase().includes('on'): "ignition off" includes it
\* too, "off" does not
IncludesOn(ign) == ign \in {"Ignition On", "Ignition Off", "ON", "on"}

\* processVehicleEvent throws a TypeError at ignitionStatus.toLowerCase()
\* when the ignition value is not a string and the vehicle is not moving
VehicleEventThrows(e) == SpeedOf(e) <= 2 /\ IgnitionOf(e) = NonString

\* new Date(v) of a stored lastLocationUpdate, in minutes: a number is read as
\* epoch milliseconds, and a text that is no date gives an Invalid Date
CacheMinutes(raw) == IF raw = InvalidTime THEN InvalidTime ELSE raw \div 60000

\* the CachedVehicle processVehicleEvent builds from the event alone, at
\* (clock) time at
CachedVehicleOf(e, at) ==
    [id |-> CacheVehicleKey(e),
     lastLocationUpdate |-> IF Falsy(e.timestamp) THEN at ELSE CacheMinutes(e.timestamp),
     currentLat |-> LatitudeOf(e), currentLng |-> LongitudeOf(e),
     currentSpeed |-> SpeedOf(e),
     address |-> e.address,
     ignitionStatus |-> IgnitionOf(e),
     status |-> IF SpeedOf(e) > 2 THEN "moving"
                ELSE IF IncludesOn(IgnitionOf(e)) THEN "idle" ELSE "offline"]

\* the updateData of the vehicle row in processVehicleEvent
VehicleUpdateData(e) ==
    LET base == [currentLat |-> LatitudeOf(e), currentLng |-> LongitudeOf(e),
                 currentSpeed |-> SpeedOf(e)]
        odo == IF e.odometer # Null THEN normalizeOdometerMiles(e.odometer) ELSE Null
    IN IF odo # Null THEN ("currentOdometer" :> odo) @@ base ELSE base

\* ------------------------------------------------- trip reconciliation

\* the updateData handleTripStartEvent computes from the trip it read
TripStartUpdateData(trip, e) ==
    LET eventTime == parseAzugaTimestamp(e)
        latitude == LatitudeOf(e)
        longitude == LongitudeOf(e)
        odo == IF Falsy(e.odometer) THEN Null ELSE normalizeOdometerMiles(e.odometer)
        u1 == IF eventTime # Null /\ trip.tripStartTime = Null
              THEN [tripStartTime |-> eventTime] ELSE EmptyUpd
        u2 == IF latitude # 0 /\ longitude # 0 /\ Falsy(trip.tripStartLat)
              THEN [tripStartLat |-> latitude, tripStartLng |-> longitude] ELSE EmptyUpd
        u3 == IF odo # Null /\ Falsy(trip.pickupOdometer)
              THEN [pickupOdometer |-> odo] ELSE EmptyUpd
        u4 == IF latitude # 0 /\ longitude # 0 /\ Falsy(trip.pickupLat)
              THEN [pickupLat |-> latitude, pickupLng |-> longitude] ELSE EmptyUpd
    IN u1 @@ u2 @@ u3 @@ u4

\* the updateData handleTripEndEvent computes from the trip it read
TripEndUpdateData(trip, e) ==
    LET eventTime == parseAzugaTimestamp(e)
        latitude == LatitudeOf(e)
        longitude == LongitudeOf(e)
        odo == IF Falsy(e.odometer) THEN Null ELSE normalizeOdometerMiles(e.odometer)
        u1 == IF eventTime # Null /\ trip.actualDropoffTime = Null
              THEN [actualDropoffTime |-> eventTime] ELSE EmptyUpd
        u2 == IF latitude # 0 /\ longitude # 0 /\ Falsy(trip.completedLat)
              THEN [completedLat |-> latitude, completedLng |-> longitude] ELSE EmptyUpd
        u3 == IF odo # Null THEN [dropoffOdometer |-> odo] ELSE EmptyUpd
        u4 == IF odo # Null /\ ~Falsy(trip.pickupOdometer) /\ odo > trip.pickupOdometer
              THEN [tripMiles |-> (odo - trip.pickupOdometer) * 10] ELSE EmptyUpd
        u5 == IF latitude # 0 /\ longitude # 0 /\ Falsy(trip.dropoffLat)
              THEN [dropoffLat |-> latitude, dropoffLng |-> longitude] ELSE EmptyUpd
        dist == IF Falsy(e.tripDistance) THEN Null ELSE normalizeDistanceMiles(e.tripDistance)
        u6 == IF dist # Null /\ (u4 = EmptyUpd \/ Falsy(u4.tripMiles))
              THEN [tripMiles |-> dist] ELSE EmptyUpd
    IN u1 @@ u2 @@ u3 @@ u4 @@ u5 @@ u6

\* variant: the PICKED_UP branch also closes the trip
OdometerUpdateData_Completes(trip, currentOdometer) ==
    LET u1 == IF trip.status = "EN_ROUTE" /\ Falsy(trip.pickupOdometer)
              THEN [pickupOdometer |-> currentOdometer] ELSE EmptyUpd
        u2 == IF trip.status = "PICKED_UP"
              THEN [dropoffOdometer |-> currentOdometer, status |-> "COMPLETED"]
              ELSE EmptyUpd
        u3 == IF trip.status = "PICKED_UP" /\ ~Falsy(trip.pickupOdometer)
                 /\ currentOdometer > trip.pickupOdometer
              THEN [tripMiles |-> (currentOdometer - trip.pickupOdometer) * 10]
              ELSE EmptyUpd
    IN u1 @@ u2 @@ u3

\* variant: tripMiles is computed whenever the trip has a pickupOdometer
OdometerUpdateData_AnyReading(trip, currentOdometer) ==
    LET u1 == IF trip.status = "EN_ROUTE" /\ Falsy(trip.pickupOdometer)
              THEN [pickupOdometer |-> currentOdometer] ELSE EmptyUpd
        u2 == IF trip.status = "PICKED_UP"
              THEN [dropoffOdometer |-> currentOdometer] ELSE EmptyUpd
        u3 == IF trip.status = "PICKED_UP" /\ ~Falsy(trip.pickupOdometer)
              THEN [tripMiles |-> (currentOdometer - trip.pickupOdometer) * 10]
              ELSE EmptyUpd
    IN u1 @@ u2 @@ u3

\* the updateData updateActiveTripOdometer computes for one trip it read
OdometerUpdateData(trip, currentOdometer) ==
    LET u1 == IF trip.status = "EN_ROUTE" /\ Falsy(trip.pickupOdometer)
              THEN [pickupOdometer |-> currentOdometer] ELSE EmptyUpd
        u2 == IF trip.status = "PICKED_UP"
              THEN [dropoffOdometer |-> currentOdometer] ELSE EmptyUpd
        u3 == IF trip.status = "PICKED_UP" /\ ~Falsy(trip.pickupOdometer)
                 /\ currentOdometer > trip.pickupOdometer
              THEN [tripMiles |-> (currentOdometer - trip.pickupOdometer) * 10]
              ELSE EmptyUpd
    IN u1 @@ u2 @@ u3

\* the updateData of TrackingGateway.handleTripStatusUpdate
StatusUpdateData(status, pickupOdometer, dropoffOdometer) ==
    LET u0 == [status |-> status]
        u1 == IF ~Falsy(pickupOdometer) THEN [pickupOdometer |-> pickupOdometer] ELSE EmptyUpd
        u2 == IF ~Falsy(dropoffOdometer) THEN [dropoffOdometer |-> dropoffOdometer] ELSE EmptyUpd
        u3 == IF ~Falsy(dropoffOdometer) /\ ~Falsy(pickupOdometer)
              THEN [tripMiles |-> (dropoffOdometer - pickupOdometer) * 10] ELSE EmptyUpd
    IN u0 @@ u1 @@ u2 @@ u3

\* ------------------------------------------------------------- inputs

\* one spelling of eventType per handler of the switch; ENGINE_FAULT is a
\* type the switch does not know
HandlerTypes == {"TRIP_START", "TRIP_END", "GPS_MESSAGE", "HARD_BRAKE", "ENGINE_FAULT"}

\* further spellings: the second ones the switch knows, and ones it does not
OtherSpellings == {"Trip Start", "Trip End", "Over Speeding", "trip_start"}

\* what an event measures, as <<odometer, latitude, longitude, timestamp>>:
\* raw odometer in tenths of a kilometre (0.5 km, 160.9 km, 241.4 km),
\* whole degrees, epoch seconds
Readings ==
    {<<Null, Null, Null, Null>>,
     <<5, Null, Null, Null>>,
     <<1609, Null, Null, Null>>,
     <<1609, 33, -112, 10>>,
     <<2414, 33, -112, 30>>,
     <<Null, 33, -112, 10>>}

\* events of vehicle V1, identified by vehicleId
ItemsV1 ==
    {[BaseEv EXCEPT !.eventType = ty, !.vehicleId = "V1", !.odometer = r[1],
                    !.latitude = r[2], !.longitude = r[3], !.timestamp = r[4]] :
        ty \in HandlerTypes, r \in Readings}

\* the same with the other spellings of the type
ItemsSpelled ==
    {[BaseEv EXCEPT !.eventType = ty, !.vehicleId = "V1", !.odometer = 1609,
                    !.latitude = 33, !.longitude = -112, !.timestamp = 10] :
        ty \in OtherSpellings}

\* TripEnd events of V1 that carry the provider's own trip distance (50.0 km)
ItemsDistance ==
    {[BaseEv EXCEPT !.eventType = "TRIP_END", !.vehicleId = "V1", !.odometer = o,
                    !.tripDistance = 500] : o \in {Null, 2414}}

\* events whose vehicle is named in another way: no identifier, an identifier
\* only processVehicleEvent reads, a second vehicle, a vehicle the store lacks;
\* and items with no event type
ItemsKeys ==
    {[BaseEv EXCEPT !.eventType = ty, !.vehicleId = k[1], !.deviceId = k[2],
                    !.odometer = 1609] :
        ty \in {"TRIP_START", "TRIP_END", "GPS_MESSAGE", ""},
        k \in {<<"", "">>, <<"", "V1">>, <<"V2", "">>, <<"VX", "">>}}

\* events of a moving vehicle, or whose ignition field is not a string
ItemsIgnition ==
    {[BaseEv EXCEPT !.eventType = ty, !.vehicleId = "V2", !.speed = sp,
                    !.ignition = ig, !.address = "A"] :
        ty \in {"TRIP_START", "GPS_MESSAGE"}, sp \in {Null, 45},
        ig \in {"", NonString}}

Items ==
    ItemsV1 \cup ItemsSpelled \cup ItemsDistance \cup ItemsKeys \cup ItemsIgnition
        \cup {NullItem}

\* payload shapes processWebhookData tells apart
PayloadShapes == {"array", "events", "dataArray", "dataObject", "object", "null"}

\* how many items a payload of the shape yields (the sizes the model draws)
ShapeSizes(shape) ==
    CASE shape \in {"array", "events", "dataArray"} -> 0..MaxBatch
      [] shape \in {"dataObject", "object"} -> {1}
      [] OTHER -> {0}

\* what the driver app reports, as <<status, pickupOdometer, dropoffOdometer>>
DriverReports ==
    {<<"SCHEDULED", Null, Null>>, <<"EN_ROUTE", Null, Null>>,
     <<"ARRIVED", Null, Null>>, <<"PICKED_UP", Null, Null>>,
     <<"PICKED_UP", 77, Null>>, <<"COMPLETED", Null, Null>>,
     <<"COMPLETED", 77, 177>>, <<"CANCELLED", Null, Null>>}

\* --------------------------------------------------------------- state

Procs == {"p1", "p2"}

VARIABLES
    trips,          \* the trip table
    vehicles,       \* the vehicle table's telemetry columns
    vehicleCache,   \* AzugaService.vehicleCache
    dbUp,           \* whether the durable store answers
    pc,             \* where each webhook request stands
    ev,             \* the item the request is processing
    rem,            \* items of the request's payload not yet taken
    tgt,            \* the trip handleTripStart/EndEvent read and will update
    upd,            \* its pending updateData
    pend,           \* updateActiveTripOdometer's pending updateData per trip
    cached,         \* the item being processed has been written to the cache
    emitted,        \* vehicle:update messages published for that item
    resp,           \* the response of the request
    taken,          \* items taken so far, over all requests
    dispatched,     \* dispatch-layer writes so far
    history,        \* history: the items processed to the end, in order
    recorded,       \* history: the trip and pickupOdometer the dispatch layer
                    \* recorded while a request held a read of that trip
    now,            \* the clock, in minutes
    served,         \* the answer of getCachedVehicles, and when it was given,
                    \* if the last step was a read
    accessToken,    \* AzugaService.accessToken
    tokenExpiresAt, \* AzugaService.tokenExpiresAt, in minutes
    cpc,            \* where each caller of the fleet API stands
    ctok,           \* the token authenticate returned to the caller
    crem,           \* entries of the fetched roster the sync has not yet taken
    cres,           \* the result the sync has counted so far
    croster,        \* the roster the sync fetched
    lastRun,        \* the last sync that returned: its roster and its result
    users,          \* the user table: the emails of its rows
    driverCache,    \* AzugaService.driverCache: the ids of its entries
    authRequests,   \* history: requests sent to the token endpoint so far
    syncs,          \* roster calls started so far
    configured,     \* whether the fleet API credentials are configured
    invalidated,    \* history: a roster fetch was answered 401 and no token
                    \* has been stored since
    arg,            \* the argument of the normalize functions
    normalized      \* what the normalize functions returned for it

vars == <<trips, vehicles, vehicleCache, dbUp, pc, ev, rem, tgt, upd, pend,
          cached, emitted, resp, taken, dispatched, history, recorded,
          now, served, accessToken, tokenExpiresAt, cpc, ctok, crem, cres,
          croster, lastRun, users, driverCache,
          authRequests, syncs, configured, invalidated, arg, normalized>>

\* the callers of the fleet API (scheduled syncs, controller requests)
Callers == {"c1", "c2"}

\* the credential state and the roster calls
rosterVars ==
    <<accessToken, tokenExpiresAt, cpc, ctok, crem, cres, croster, lastRun, users, driverCache,
      authRequests, syncs, configured, invalidated>>

\* the call of the normalize functions
argVars == <<arg, normalized>>

\* no argument passed, nothing returned
NoValue == [type |-> "undefined"]
NotReturned == [odometer |-> Null, distance |-> Null, returned |-> FALSE]

\* the credential state
tokenVars == <<accessToken, tokenExpiresAt, authRequests, syncs, configured, invalidated>>

\* the result of a sync that has counted nothing
NoResult == [created |-> 0, updated |-> 0, errors |-> 0]

\* no sync has returned
NoRun == [kind |-> "", roster |-> <<>>, result |-> NoResult]

\* the emails of the users the store holds before any sync
DbUsers == {"a@x"}

\* no cache read answered
NoResponse == [at |-> Null, rows |-> EmptyUpd]

\* the step is not a cache read
Unread == served' = NoResponse

\* the history variables: EndItem appends to the first when it logs, and
\* TripStatusUpdate sets the second
histVars == <<history, recorded>>

\* no dispatch-layer write recorded
NoRecord == <<"", Null>>

procVars == <<pc, ev, rem, tgt, upd, pend, cached, emitted, resp, taken>>

NewVehicle ==
    [currentLat |-> Null, currentLng |-> Null, currentSpeed |-> Null,
     currentOdometer |-> Null]

\* prisma.vehicle.findFirst({where: {OR: [{vin: a}, {licensePlate: b}]}}):
\* the rows that match (the query has no orderBy). A row the vehicle sync
\* created is keyed by its vin, and its licensePlate is the roster name.
FindVehicles(a, b) ==
    {v \in DbVehicleIds : DbVin[v] = a \/ DbPlate[v] = b}
        \cup {v \in DOMAIN vehicles \ DbVehicleIds : v = a \/ "Vehicle " \o v = b}

\* new Map(): the empty cache
NoVehicles == [k \in {} |-> Null]

\* Map.set(key, value): the entry of the key is replaced
MapSet(map, key, value) == (key :> value) @@ map

\* the service as constructed (empty cache, no token, no request), over trip
\* table rows, a store that is reachable or not, and credentials configured
\* or not
InitConfigured(rows, up, cfg) ==
    /\ trips = rows
    /\ vehicles = [v \in DbVehicleIds |-> NewVehicle]
    /\ vehicleCache = NoVehicles
    /\ dbUp = up
    /\ pc = [p \in Procs |-> "idle"]
    /\ ev = [p \in Procs |-> BaseEv]
    /\ rem = [p \in Procs |-> 0]
    /\ tgt = [p \in Procs |-> ""]
    /\ upd = [p \in Procs |-> EmptyUpd]
    /\ pend = [p \in Procs |-> EmptyUpd]
    /\ cached = [p \in Procs |-> FALSE]
    /\ emitted = [p \in Procs |-> 0]
    /\ resp = [p \in Procs |-> "none"]
    /\ taken = 0
    /\ dispatched = 0
    /\ history = <<>>
    /\ recorded = NoRecord
    /\ now = 0
    /\ served = NoResponse
    /\ accessToken = Null
    /\ tokenExpiresAt = Null
    /\ cpc = [c \in Callers |-> "idle"]
    /\ ctok = [c \in Callers |-> Null]
    /\ crem = [c \in Callers |-> <<>>]
    /\ cres = [c \in Callers |-> NoResult]
    /\ croster = [c \in Callers |-> <<>>]
    /\ lastRun = NoRun
    /\ arg = NoValue
    /\ normalized = NotReturned
    /\ users = DbUsers
    /\ driverCache = {}
    /\ authRequests = 0
    /\ syncs = 0
    /\ configured = cfg
    /\ invalidated = FALSE

\* the service with its credentials configured
InitWith(rows, up) == InitConfigured(rows, up, TRUE)

\* two scheduled trips, t1 on vehicle dbv1 and t2 on vehicle dbv2
NewTrips == [t \in TripIds |-> NewTrip(IF t = "t1" THEN "dbv1" ELSE "dbv2")]

Init == \E up \in BOOLEAN : InitWith(NewTrips, up)

\* ---------------------------------------------------- webhook request

\* variant: the catch block rethrows
WebhookOutcome_Rethrows(threw) == IF threw THEN "rejected" ELSE "resolved"

\* how processWebhookData settles: its try/catch swallows whatever is thrown
\* while the payload is unpacked or an item is processed
WebhookOutcome(threw) == "resolved"

\* AzugaController.handleWebhook: awaits processWebhookData, then acknowledges
HandleWebhookResponse(outcome) ==
    IF outcome = "resolved" THEN "received" ELSE "error"

\* the request takes item e off its payload
TakeItem(p, e) ==
    /\ pc[p] = "loop"
    /\ rem[p] > 0
    /\ rem' = [rem EXCEPT ![p] = @ - 1]
    /\ taken' = taken + 1
    /\ ev' = [ev EXCEPT ![p] = e]

\* an exception leaves the for loop and is caught outside it: the request
\* ends, and the items it has not taken are never processed
Escape(p) ==
    /\ pc' = [pc EXCEPT ![p] = "idle"]
    /\ resp' = [resp EXCEPT ![p] = HandleWebhookResponse(WebhookOutcome(TRUE))]
    /\ recorded' = NoRecord

\* variant: the message is published, and once again
Emit_Retried(published) == published + 2

\* this.trackingGateway.server.emit('vehicle:update', cachedVehicle): one more
\* message is published for the item
Emit(published) == published + 1

\* items unpacked by the requests and not yet taken
Outstanding == rem["p1"] + rem["p2"]

\* POST /azuga/webhook reaches AzugaController.handleWebhook
Receive(p) ==
    /\ pc[p] = "idle"
    /\ pc' = [pc EXCEPT ![p] = "unpack"]
    /\ resp' = [resp EXCEPT ![p] = "none"]
    /\ rem' = [rem EXCEPT ![p] = 0]
    /\ UNCHANGED <<trips, vehicles, vehicleCache, dbUp, ev, tgt, upd, pend,
                   cached, emitted, taken, dispatched, histVars>>
    /\ Unread
    /\ UNCHANGED argVars
    /\ UNCHANGED <<now, rosterVars>>

\* processWebhookData turns the payload into the list of its n items; a
\* payload that is null throws at payload.events, inside the try
Unpack(p, shape, n, budget) ==
    /\ pc[p] = "unpack"
    /\ n \in ShapeSizes(shape)
    /\ n <= budget - taken - Outstanding
    /\ IF shape = "null"
       THEN /\ Escape(p)
            /\ rem' = rem
       ELSE /\ pc' = [pc EXCEPT ![p] = "loop"]
            /\ rem' = [rem EXCEPT ![p] = n]
            /\ UNCHANGED <<resp, recorded>>
    /\ UNCHANGED <<trips, vehicles, vehicleCache, dbUp, ev, tgt, upd, pend,
                   cached, emitted, taken, dispatched, history>>
    /\ Unread
    /\ UNCHANGED argVars
    /\ UNCHANGED <<now, rosterVars>>

\* the for loop has run out of items: processWebhookData returns
Finish(p) ==
    /\ pc[p] = "loop"
    /\ rem[p] = 0
    /\ pc' = [pc EXCEPT ![p] = "idle"]
    /\ resp' = [resp EXCEPT ![p] = HandleWebhookResponse(WebhookOutcome(FALSE))]
    /\ UNCHANGED <<trips, vehicles, vehicleCache, dbUp, ev, rem, tgt, upd, pend,
                   cached, emitted, taken, dispatched, histVars>>
    /\ Unread
    /\ UNCHANGED argVars
    /\ UNCHANGED <<now, rosterVars>>

\* the item is not an object: event.eventType throws inside the loop
ItemThrows(p, e) ==
    /\ e.kind = "null"
    /\ pc[p] = "loop"
    /\ rem[p] > 0
    /\ rem' = [rem EXCEPT ![p] = @ - 1]
    /\ taken' = taken + 1
    /\ Escape(p)
    /\ UNCHANGED <<trips, vehicles, vehicleCache, dbUp, ev, tgt, upd, pend,
                   cached, emitted, dispatched, history>>
    /\ Unread
    /\ UNCHANGED argVars
    /\ UNCHANGED <<now, rosterVars>>

\* the item has no event type: continue
ItemSkipped(p, e) ==
    /\ e.kind = "object"
    /\ EventTypeOf(e) = ""
    /\ TakeItem(p, e)
    /\ pc' = [pc EXCEPT ![p] = "end"]
    /\ UNCHANGED <<trips, vehicles, vehicleCache, dbUp, tgt, upd, pend,
                   cached, emitted, resp, dispatched, histVars>>
    /\ Unread
    /\ UNCHANGED argVars
    /\ UNCHANGED <<now, rosterVars>>

\* the trips findFirst may return for handler h and vehicle row v
TripCandidates(h, v) ==
    {t \in TripIds :
        /\ trips[t].vehicleId = v
        /\ trips[t].status \in (IF h = "tripStart" THEN {"EN_ROUTE"} ELSE ActiveStatuses)}

\* handleTripStartEvent / handleTripEndEvent up to the trip update: the
\* identifier check, the vehicle and trip lookups, the updateData
TripPhaseRead(p, e) ==
    LET h == HandlerOf(EventTypeOf(e))
        key == TripVehicleKey(e)
        matches == FindVehicles(key, key)
    IN
    /\ e.kind = "object"
    /\ EventTypeOf(e) # ""
    /\ h \in {"tripStart", "tripEnd"}
    /\ TakeItem(p, e)
    /\ \/ /\ key = "" \/ (dbUp /\ matches = {})
          /\ pc' = [pc EXCEPT ![p] = "end"]
          /\ UNCHANGED <<tgt, upd>>
       \/ /\ key # ""
          /\ ~dbUp
          /\ pc' = [pc EXCEPT ![p] = "pv"]
          /\ UNCHANGED <<tgt, upd>>
       \/ /\ key # ""
          /\ dbUp
          /\ \E v \in matches :
                \/ /\ TripCandidates(h, v) = {}
                   /\ pc' = [pc EXCEPT ![p] = "pv"]
                   /\ UNCHANGED <<tgt, upd>>
                \/ \E t \in TripCandidates(h, v) :
                     LET u == IF h = "tripStart"
                              THEN TripStartUpdateData(trips[t], e)
                              ELSE TripEndUpdateData(trips[t], e)
                     IN IF DOMAIN u = {}
                        THEN /\ pc' = [pc EXCEPT ![p] = "pv"]
                             /\ UNCHANGED <<tgt, upd>>
                        ELSE /\ pc' = [pc EXCEPT ![p] = "tripWrite"]
                             /\ tgt' = [tgt EXCEPT ![p] = t]
                             /\ upd' = [upd EXCEPT ![p] = u]
    /\ UNCHANGED <<trips, vehicles, vehicleCache, dbUp, pend, cached, emitted,
                   resp, dispatched, histVars>>
    /\ Unread
    /\ UNCHANGED argVars
    /\ UNCHANGED <<now, rosterVars>>

\* an item the switch sends straight to processVehicleEvent (by way of
\* handleSafetyEvent for the safety types)
VehicleItem(p, e) ==
    /\ e.kind = "object"
    /\ EventTypeOf(e) # ""
    /\ HandlerOf(EventTypeOf(e)) \in {"vehicle", "safety"}
    /\ TakeItem(p, e)
    /\ pc' = [pc EXCEPT ![p] = "pv"]
    /\ UNCHANGED <<trips, vehicles, vehicleCache, dbUp, tgt, upd, pend, cached,
                   emitted, resp, dispatched, histVars>>
    /\ Unread
    /\ UNCHANGED argVars
    /\ UNCHANGED <<now, rosterVars>>

\* prisma.trip.update of handleTripStartEvent / handleTripEndEvent; a store
\* error is caught and logged, and processVehicleEvent follows either way
TripWrite(p) ==
    /\ pc[p] = "tripWrite"
    /\ trips' = IF dbUp
                THEN [trips EXCEPT ![tgt[p]] = PrismaUpdate(@, upd[p])]
                ELSE trips
    /\ pc' = [pc EXCEPT ![p] = "pv"]
    /\ tgt' = [tgt EXCEPT ![p] = ""]
    /\ upd' = [upd EXCEPT ![p] = EmptyUpd]
    /\ UNCHANGED <<vehicles, vehicleCache, dbUp, ev, rem, pend, cached, emitted,
                   resp, taken, dispatched, histVars>>
    /\ Unread
    /\ UNCHANGED argVars
    /\ UNCHANGED <<now, rosterVars>>

\* what updateActiveTripOdometer will write: findMany's rows of vehicle v,
\* each with the updateData computed from the row as read (empty ones dropped)
OdometerPending(v, currentOdometer) ==
    LET rows == {t \in TripIds : /\ trips[t].vehicleId = v
                                 /\ trips[t].status \in ActiveStatuses
                                 /\ DOMAIN OdometerUpdateData(trips[t], currentOdometer) # {}}
    IN [t \in rows |-> OdometerUpdateData(trips[t], currentOdometer)]

\* processVehicleEvent: cache write, broadcast, vehicle row update, and the
\* read of updateActiveTripOdometer
ProcessVehicle(p) ==
    LET e == ev[p]
        key == CacheVehicleKey(e)
        matches == FindVehicles(key, VehicleNameOf(e))
        data == VehicleUpdateData(e)
        cur == IF "currentOdometer" \in DOMAIN data THEN data.currentOdometer ELSE Null
    IN
    /\ pc[p] = "pv"
    /\ \/ /\ key = ""
          /\ pc' = [pc EXCEPT ![p] = "end"]
          /\ UNCHANGED <<vehicles, vehicleCache, pend, cached, emitted, resp, ev,
                         recorded>>
       \/ /\ key # ""
          /\ VehicleEventThrows(e)
          /\ Escape(p)
          /\ ev' = [ev EXCEPT ![p] = BaseEv]
          /\ UNCHANGED <<vehicles, vehicleCache, pend, cached, emitted>>
       \/ /\ key # ""
          /\ ~VehicleEventThrows(e)
          /\ vehicleCache' = MapSet(vehicleCache, key, CachedVehicleOf(e, now))
          /\ cached' = [cached EXCEPT ![p] = TRUE]
          /\ emitted' = [emitted EXCEPT ![p] = Emit(@)]
          /\ UNCHANGED <<resp, ev, recorded>>
          /\ \/ /\ ~dbUp \/ matches = {}
                /\ pc' = [pc EXCEPT ![p] = "end"]
                /\ UNCHANGED <<vehicles, pend>>
             \/ /\ dbUp
                /\ \E v \in matches :
                     /\ vehicles' = [vehicles EXCEPT ![v] = PrismaUpdate(@, data)]
                     /\ IF Falsy(cur) \/ DOMAIN OdometerPending(v, cur) = {}
                        THEN /\ pc' = [pc EXCEPT ![p] = "end"]
                             /\ pend' = pend
                        ELSE /\ pc' = [pc EXCEPT ![p] = "uoWrite"]
                             /\ pend' = [pend EXCEPT ![p] = OdometerPending(v, cur)]
    /\ UNCHANGED <<trips, dbUp, rem, tgt, upd, taken, dispatched, history>>
    /\ Unread
    /\ UNCHANGED argVars
    /\ UNCHANGED <<now, rosterVars>>

\* one prisma.trip.update of updateActiveTripOdometer's loop; a store error
\* is caught by the method's own try/catch, which ends the loop
OdometerWrite(p, t) ==
    /\ pc[p] = "uoWrite"
    /\ t \in DOMAIN pend[p]
    /\ IF dbUp
       THEN /\ trips' = [trips EXCEPT ![t] = PrismaUpdate(@, pend[p][t])]
            /\ pend' = [pend EXCEPT ![p] = [x \in DOMAIN pend[p] \ {t} |-> pend[p][x]]]
            /\ pc' = [pc EXCEPT ![p] = IF DOMAIN pend[p] = {t} THEN "end" ELSE "uoWrite"]
       ELSE /\ trips' = trips
            /\ pend' = [pend EXCEPT ![p] = EmptyUpd]
            /\ pc' = [pc EXCEPT ![p] = "end"]
    /\ UNCHANGED <<vehicles, vehicleCache, dbUp, ev, rem, tgt, upd, cached,
                   emitted, resp, taken, dispatched, histVars>>
    /\ Unread
    /\ UNCHANGED argVars
    /\ UNCHANGED <<now, rosterVars>>

\* the handler of the item has returned: back to the head of the for loop
\* (log: the item is appended to the history)
EndItem(p, log) ==
    /\ pc[p] = "end"
    /\ pc' = [pc EXCEPT ![p] = "loop"]
    /\ ev' = [ev EXCEPT ![p] = BaseEv]
    /\ cached' = [cached EXCEPT ![p] = FALSE]
    /\ emitted' = [emitted EXCEPT ![p] = 0]
    /\ history' = IF log THEN Append(history, ev[p]) ELSE history
    /\ recorded' = NoRecord
    /\ UNCHANGED <<trips, vehicles, vehicleCache, dbUp, rem, tgt, upd, pend,
                   resp, taken, dispatched>>
    /\ Unread
    /\ UNCHANGED argVars
    /\ UNCHANGED <<now, rosterVars>>

\* -------------------------------------------------------- environment

\* no request is between a store read and the write that depends on it
Quiet == \A p \in Procs : pc[p] \in {"idle", "unpack", "loop"}

\* request p holds a read of trip t that its pending update was computed from
HoldsRead(p, t) ==
    \/ pc[p] = "tripWrite" /\ tgt[p] = t
    \/ pc[p] = "uoWrite" /\ t \in DOMAIN pend[p]

\* TrackingGateway.handleTripStatusUpdate: the driver app reports a status,
\* with odometer readings or without; a store error is reported to the driver
TripStatusUpdate(t, status, pickupOdometer, dropoffOdometer) ==
    /\ dbUp
    /\ dispatched < MaxDispatch
    /\ dispatched' = dispatched + 1
    /\ trips' = [trips EXCEPT ![t] =
                    PrismaUpdate(@, StatusUpdateData(status, pickupOdometer, dropoffOdometer))]
    /\ recorded' = IF (\E p \in Procs : HoldsRead(p, t)) /\ ~Falsy(pickupOdometer)
                   THEN <<t, pickupOdometer>> ELSE recorded
    /\ UNCHANGED <<vehicles, vehicleCache, dbUp, procVars, history>>
    /\ Unread
    /\ UNCHANGED argVars
    /\ UNCHANGED <<now, rosterVars>>

\* the durable store becomes unreachable, or reachable again
StoreFlip ==
    /\ dbUp' = ~dbUp
    /\ UNCHANGED <<trips, vehicles, vehicleCache, procVars, dispatched, histVars>>
    /\ Unread
    /\ UNCHANGED argVars
    /\ UNCHANGED <<now, rosterVars>>

\* what the dispatcher's form sends to TripsService.update: coordinates of the
\* pickup or dropoff address, each field on its own
CoordinatePatches ==
    {[pickupLng |-> -111], [dropoffLng |-> -111], [pickupLat |-> 34, pickupLng |-> -111]}

\* TripsService.update: every field the DTO carries is written, the others
\* are left as they are
TripsUpdate(t, updateTripDto) ==
    /\ dbUp
    /\ dispatched < MaxDispatch
    /\ dispatched' = dispatched + 1
    /\ trips' = [trips EXCEPT ![t] = PrismaUpdate(@, updateTripDto)]
    /\ UNCHANGED <<vehicles, vehicleCache, dbUp, procVars, histVars>>
    /\ Unread
    /\ UNCHANGED argVars
    /\ UNCHANGED <<now, rosterVars>>

\* ------------------------------------------------------------ the clock

\* how far the clock goes
MaxNow == 12

\* the clock advances by d minutes
Tick(d) ==
    /\ now + d <= MaxNow
    /\ now' = now + d
    /\ UNCHANGED <<trips, vehicles, vehicleCache, dbUp, procVars, dispatched, histVars>>
    /\ Unread
    /\ UNCHANGED argVars
    /\ UNCHANGED rosterVars

\* ------------------------------------------------------- the cache read

\* Map.has(k)
Has(cache, k) == k \in DOMAIN cache

\* minutes after which getCachedVehicles reports an entry offline
StaleMinutes == 10

\* variant: a stale entry keeps its stored status while it is moving
getCachedVehicles_KeepsMoving(cache, at) ==
    [k \in DOMAIN cache |->
        LET v == cache[k]
            minutesAgo == at - v.lastLocationUpdate
            status == IF minutesAgo > StaleMinutes /\ v.status # "moving"
                      THEN "offline" ELSE v.status
        IN ("isMoving" :> (status = "moving")) @@ [v EXCEPT !.status = status]]

\* variant: entries older than the limit are left out of the answer
getCachedVehicles_DropsStale(cache, at) ==
    [k \in {k \in DOMAIN cache : TRUE
                              /\ at - cache[k].lastLocationUpdate <= StaleMinutes} |->
        ("isMoving" :> (cache[k].status = "moving")) @@ cache[k]]

\* getCachedVehicles at time at: a copy of every entry, its status offline
\* when the entry is older than the limit (minutesAgo is NaN for an Invalid
\* Date, and NaN > 10 is false)
getCachedVehicles(cache, at) ==
    [k \in DOMAIN cache |->
        LET v == cache[k]
            minutesAgo == at - v.lastLocationUpdate
            status == IF v.lastLocationUpdate # InvalidTime /\ minutesAgo > StaleMinutes
                      THEN "offline" ELSE v.status
        IN ("isMoving" :> (status = "moving")) @@ [v EXCEPT !.status = status]]

\* GET /azuga/vehicles/locations: the answer of getCachedVehicles
ReadCache ==
    /\ served' = [at |-> now, rows |-> getCachedVehicles(vehicleCache, now)]
    /\ UNCHANGED argVars
    /\ UNCHANGED <<trips, vehicles, vehicleCache, dbUp, procVars, dispatched, histVars>>
    /\ UNCHANGED <<now, rosterVars>>

\* ------------------------------------------------------- the fleet API

\* how many roster calls are started, and how many vehicles a roster holds
MaxSyncs == 2
MaxRoster == 2

\* the two rosters a caller fetches
RosterKinds == {"Vehicles", "Drivers"}

\* where a caller awaits the token endpoint, and where the roster endpoint
AuthPc(kind) == "auth" \o kind
FetchPc(kind) == "fetch" \o kind
AuthPcs == {AuthPc(kind) : kind \in RosterKinds}
FetchPcs == {FetchPc(kind) : kind \in RosterKinds}

\* minutes before its expiry from which a token is no longer reused
TokenBufferMinutes == 5

\* variant: the token is reused until its expiry
TokenValid_NoBuffer(at) ==
    accessToken # Null /\ tokenExpiresAt # Null /\ at < tokenExpiresAt

\* authenticate's test of the cached token at time at
TokenValid(at) ==
    accessToken # Null /\ tokenExpiresAt # Null
        /\ at < tokenExpiresAt - TokenBufferMinutes

\* data.expires_in || 3600, in seconds
ExpiresInSec(expires_in) == IF Falsy(expires_in) THEN 3600 ELSE expires_in

\* what the token endpoint answers: a failure, a body with no access_token,
\* a token with no expires_in, a token that lives fifteen minutes
AuthReplies ==
    {[ok |-> FALSE, access_token |-> FALSE, expires_in |-> Null],
     [ok |-> TRUE, access_token |-> FALSE, expires_in |-> Null],
     [ok |-> TRUE, access_token |-> TRUE, expires_in |-> Null],
     [ok |-> TRUE, access_token |-> TRUE, expires_in |-> 900]}

\* what the roster endpoint answers
FetchReplies == {"ok", "401", "500"}

\* the roster call of caller c ends (returns or throws)
CallEnds(c) ==
    /\ cpc' = [cpc EXCEPT ![c] = "idle"]
    /\ ctok' = [ctok EXCEPT ![c] = Null]
    /\ crem' = [crem EXCEPT ![c] = <<>>]
    /\ cres' = [cres EXCEPT ![c] = NoResult]
    /\ croster' = [croster EXCEPT ![c] = <<>>]

\* fetchVehiclesFromApi / fetchDriversFromApi up to their first await: the
\* call of authenticate, which returns the cached token, or throws for want
\* of credentials, or sends a request to the token endpoint (ctok holds the
\* number of the request until its answer, the token of request n being n)
Authenticate(c, kind) ==
    /\ cpc[c] = "idle"
    /\ syncs < MaxSyncs
    /\ syncs' = syncs + 1
    /\ IF TokenValid(now)
       THEN /\ cpc' = [cpc EXCEPT ![c] = FetchPc(kind)]
            /\ ctok' = [ctok EXCEPT ![c] = accessToken]
            /\ UNCHANGED authRequests
       ELSE IF ~configured
       THEN UNCHANGED <<cpc, ctok, authRequests>>
       ELSE /\ cpc' = [cpc EXCEPT ![c] = AuthPc(kind)]
            /\ authRequests' = authRequests + 1
            /\ ctok' = [ctok EXCEPT ![c] = authRequests + 1]
    /\ UNCHANGED <<accessToken, tokenExpiresAt, crem, configured, invalidated>>
    /\ UNCHANGED <<cres, croster, lastRun, users, driverCache>>
    /\ UNCHANGED <<trips, vehicles, vehicleCache, dbUp, procVars, dispatched, histVars>>
    /\ Unread
    /\ UNCHANGED argVars
    /\ UNCHANGED now

\* variant: the token of the request is stored before the answer is examined
FailedAttemptToken_StoresIssued(cachedToken, issued) == issued

\* this.accessToken after an attempt that threw: the throw comes before the
\* assignment
FailedAttemptToken(cachedToken, issued) == cachedToken

\* the token endpoint answers caller c: authenticate stores and returns the
\* token, or throws
AuthReply(c, reply) ==
    /\ cpc[c] \in AuthPcs
    /\ IF reply.ok /\ reply.access_token
       THEN /\ accessToken' = ctok[c]
            /\ tokenExpiresAt' = now + ExpiresInSec(reply.expires_in) \div 60
            /\ cpc' = [cpc EXCEPT ![c] =
                          IF @ = AuthPc("Vehicles") THEN FetchPc("Vehicles")
                          ELSE FetchPc("Drivers")]
            /\ invalidated' = FALSE
            /\ UNCHANGED <<ctok, crem, cres, croster>>
       ELSE /\ CallEnds(c)
            /\ accessToken' = FailedAttemptToken(accessToken, ctok[c])
            /\ UNCHANGED <<tokenExpiresAt, invalidated>>
    /\ UNCHANGED <<authRequests, syncs, configured, lastRun, users, driverCache>>
    /\ UNCHANGED <<trips, vehicles, vehicleCache, dbUp, procVars, dispatched, histVars>>
    /\ Unread
    /\ UNCHANGED argVars
    /\ UNCHANGED now

\* variant: a 401 leaves the cached token in place
InvalidatedToken_Kept(token) == token

\* this.accessToken = null on a 401
InvalidatedToken(token) == Null

\* where a caller works through the roster it fetched
SyncPc(kind) == "sync" \o kind
SyncPcs == {SyncPc(kind) : kind \in RosterKinds}

\* the rosters of at most MaxRoster entries drawn from E
Rosters(E) == UNION {[1..n -> E] : n \in 0..MaxRoster}

\* the rosters of one entry drawn from E
SingleEntry(E) == [1..1 -> E]

\* the roster endpoint answers caller c, who asked for the roster of the
\* kind, with a roster, with 401 or with another error
FetchReply(c, kind, reply, roster) ==
    /\ cpc[c] = FetchPc(kind)
    /\ accessToken' = IF reply = "401" THEN InvalidatedToken(accessToken) ELSE accessToken
    /\ invalidated' = (invalidated \/ reply = "401")
    /\ IF reply = "ok"
       THEN /\ cpc' = [cpc EXCEPT ![c] = SyncPc(kind)]
            /\ crem' = [crem EXCEPT ![c] = roster]
            /\ croster' = [croster EXCEPT ![c] = roster]
            /\ ctok' = [ctok EXCEPT ![c] = Null]
            /\ UNCHANGED cres
       ELSE CallEnds(c)
    /\ UNCHANGED <<tokenExpiresAt, authRequests, syncs, configured, lastRun, users, driverCache>>
    /\ UNCHANGED <<trips, vehicles, vehicleCache, dbUp, procVars, dispatched, histVars>>
    /\ Unread
    /\ UNCHANGED argVars
    /\ UNCHANGED now

\* an entry of the vehicle roster
BaseVehicle ==
    [kind |-> "object", vin |-> "", speed |-> Null, address |-> "",
     latitude |-> Null, longitude |-> Null]

\* an entry of a roster that is null
NullEntry == [BaseVehicle EXCEPT !.kind = "null"]

\* the roster entries the model draws: no identifier; V1 standing, with no
\* address; V1 at two miles an hour; V2 on the road
RosterVehicles ==
    {BaseVehicle,
     [BaseVehicle EXCEPT !.vin = "V1"],
     [BaseVehicle EXCEPT !.vin = "V1", !.speed = 2, !.address = "B",
                         !.latitude = 33, !.longitude = -112],
     [BaseVehicle EXCEPT !.vin = "V2", !.speed = 45, !.address = "B",
                         !.latitude = 34, !.longitude = -111]}

\* the CachedVehicle syncVehiclesFromAzuga builds from a roster entry alone
SyncedVehicleOf(azugaVehicle, at) ==
    [id |-> azugaVehicle.vin,
     lastLocationUpdate |-> at,
     currentLat |-> IF Falsy(azugaVehicle.latitude) THEN 0 ELSE azugaVehicle.latitude,
     currentLng |-> IF Falsy(azugaVehicle.longitude) THEN 0 ELSE azugaVehicle.longitude,
     currentSpeed |-> IF Falsy(azugaVehicle.speed) THEN 0 ELSE azugaVehicle.speed,
     address |-> azugaVehicle.address,
     ignitionStatus |-> "Unknown",
     status |-> IF ~Falsy(azugaVehicle.speed) /\ azugaVehicle.speed > 0
                THEN "moving" ELSE "offline"]

\* the position columns syncVehiclesFromAzuga writes to the vehicle row
\* (an undefined value is left out of the update)
SyncUpdateData(azugaVehicle) ==
    (IF azugaVehicle.latitude = Null THEN EmptyUpd
     ELSE [currentLat |-> azugaVehicle.latitude])
    @@ (IF azugaVehicle.longitude = Null THEN EmptyUpd
        ELSE [currentLng |-> azugaVehicle.longitude])

\* the result with one more of the field counted
Counted(result, field) == [result EXCEPT ![field] = @ + 1]

\* variant: the sync looks a vehicle up among the rows it did not create
SyncMatches_SeededRowsOnly(vin, name) ==
    {v \in DbVehicleIds : DbVin[v] = vin \/ DbPlate[v] = name}

\* the row syncVehiclesFromAzuga's findFirst may return for a roster entry
SyncMatches(vin, name) == FindVehicles(vin, name)

\* one turn of syncVehiclesFromAzuga's loop. An entry with no identifier is
\* passed over. A store error is caught, counted in errors, and the entry is
\* left out of the cache. Otherwise the vehicle row is updated, or created
\* when none matches, and then the cache entry is replaced. For an entry that
\* is null the read of its vin throws, and so does the catch block's read of
\* its vehicleName: the outer catch logs and rethrows.
SyncVehicle(c) ==
    /\ cpc[c] = SyncPc("Vehicles")
    /\ crem[c] # <<>>
    /\ LET azugaVehicle == Head(crem[c])
           vin == azugaVehicle.vin
           name == "Vehicle " \o vin
           matches == SyncMatches(vin, name)
       IN IF azugaVehicle.kind = "null"
          THEN /\ CallEnds(c)
               /\ UNCHANGED <<vehicles, vehicleCache>>
          ELSE /\ crem' = [crem EXCEPT ![c] = Tail(@)]
               /\ UNCHANGED <<cpc, ctok, croster>>
               /\ IF vin = ""
                  THEN UNCHANGED <<vehicles, vehicleCache, cres>>
                  ELSE IF ~dbUp
                  THEN /\ cres' = [cres EXCEPT ![c] = Counted(@, "errors")]
                       /\ UNCHANGED <<vehicles, vehicleCache>>
                  ELSE /\ IF matches # {}
                          THEN /\ \E v \in matches :
                                    vehicles' = [vehicles EXCEPT ![v] =
                                        PrismaUpdate(@, SyncUpdateData(azugaVehicle))]
                               /\ cres' = [cres EXCEPT ![c] = Counted(@, "updated")]
                          ELSE /\ vehicles' = MapSet(vehicles, vin,
                                        PrismaUpdate(NewVehicle, SyncUpdateData(azugaVehicle)))
                               /\ cres' = [cres EXCEPT ![c] = Counted(@, "created")]
                       /\ vehicleCache' =
                              MapSet(vehicleCache, vin, SyncedVehicleOf(azugaVehicle, now))
    /\ UNCHANGED <<tokenVars, lastRun, users, driverCache>>
    /\ UNCHANGED <<trips, dbUp, procVars, dispatched, histVars>>
    /\ Unread
    /\ UNCHANGED argVars
    /\ UNCHANGED now

\* syncVehiclesFromAzuga returns its result after the last entry (the run is
\* kept as the last one if the specification follows the runs)
SyncDone(c, log) ==
    /\ cpc[c] = SyncPc("Vehicles")
    /\ crem[c] = <<>>
    /\ lastRun' = IF log THEN [kind |-> cpc[c], roster |-> croster[c], result |-> cres[c]]
                  ELSE lastRun
    /\ CallEnds(c)
    /\ UNCHANGED <<tokenVars, users, driverCache>>
    /\ UNCHANGED <<trips, vehicles, vehicleCache, dbUp, procVars, dispatched, histVars>>
    /\ Unread
    /\ UNCHANGED argVars
    /\ UNCHANGED now

\* an entry of the driver roster
BaseDriver == [kind |-> "object", id |-> "", email |-> ""]

\* the driver roster entry of a driver the store knows
RosterDrivers == {[BaseDriver EXCEPT !.id = "d1", !.email = "a@x"]}

\* azugaDriver.email?.toLowerCase().trim(), over the emails of the model
LowerTrim(email) == IF email = "B@X " THEN "b@x" ELSE email

\* the email syncDriversFromAzuga looks the driver up by: the roster's, or a
\* placeholder made of the driver's id
DriverEmail(azugaDriver) ==
    IF LowerTrim(azugaDriver.email) = ""
    THEN "no-email-" \o azugaDriver.id \o "@yaztrans.com"
    ELSE LowerTrim(azugaDriver.email)

\* one turn of syncDriversFromAzuga's loop. A store error is caught and
\* counted in errors. Otherwise the user of the email is updated, or created
\* when there is none (the welcome email's failure is swallowed by the email
\* service), and the driver is cached. For an entry that is null the read of
\* its email throws, and so does the catch block's: the outer catch rethrows.
SyncDriver(c) ==
    /\ cpc[c] = SyncPc("Drivers")
    /\ crem[c] # <<>>
    /\ LET azugaDriver == Head(crem[c])
           email == DriverEmail(azugaDriver)
       IN IF azugaDriver.kind = "null"
          THEN /\ CallEnds(c)
               /\ UNCHANGED <<users, driverCache>>
          ELSE /\ crem' = [crem EXCEPT ![c] = Tail(@)]
               /\ UNCHANGED <<cpc, ctok, croster>>
               /\ IF ~dbUp
                  THEN /\ cres' = [cres EXCEPT ![c] = Counted(@, "errors")]
                       /\ UNCHANGED <<users, driverCache>>
                  ELSE /\ users' = users \cup {email}
                       /\ cres' = [cres EXCEPT ![c] =
                                      Counted(@, IF email \in users THEN "updated"
                                                 ELSE "created")]
                       /\ driverCache' = driverCache \cup {azugaDriver.id}
    /\ UNCHANGED <<tokenVars, lastRun>>
    /\ UNCHANGED <<trips, vehicles, vehicleCache, dbUp, procVars, dispatched, histVars>>
    /\ Unread
    /\ UNCHANGED argVars
    /\ UNCHANGED now

\* syncDriversFromAzuga returns its result after the last entry
DriverSyncDone(c, log) ==
    /\ cpc[c] = SyncPc("Drivers")
    /\ crem[c] = <<>>
    /\ lastRun' = IF log THEN [kind |-> cpc[c], roster |-> croster[c], result |-> cres[c]]
                  ELSE lastRun
    /\ CallEnds(c)
    /\ UNCHANGED <<tokenVars, users, driverCache>>
    /\ UNCHANGED <<trips, vehicles, vehicleCache, dbUp, procVars, dispatched, histVars>>
    /\ Unread
    /\ UNCHANGED argVars
    /\ UNCHANGED now

\* the steps of the roster calls of caller c, for the rosters K, the answers
\* A of the token endpoint and F of the roster endpoint, and the vehicle
\* rosters R; at any point of the webhook requests, or only between their
\* items; with the runs followed or not
Roster(c, K, A, F, R, anytime, log) ==
    \/ \E kind \in K : (anytime \/ Quiet) /\ Authenticate(c, kind)
    \/ \E reply \in A : (anytime \/ Quiet) /\ AuthReply(c, reply)
    \/ \E reply \in F : \E roster \in R :
          (anytime \/ Quiet) /\ FetchReply(c, "Vehicles", reply, roster)
    \/ (anytime \/ Quiet) /\ SyncVehicle(c)
    \/ (anytime \/ Quiet) /\ SyncDone(c, log)

\* the steps of caller c's driver sync once it holds a token, for the
\* answers F of the roster endpoint and the driver rosters R
DriverRoster(c, F, R, log) ==
    \/ \E reply \in F : \E roster \in R : FetchReply(c, "Drivers", reply, roster)
    \/ SyncDriver(c)
    \/ DriverSyncDone(c, log)

\* ------------------------------------------------- the normalize calls

\* the readings in tenths of a kilometre passed as numbers
NumberArgs == (-2 .. 12) \cup {1609, 2414}

\* the values passed to the normalize functions: numbers, texts, null, a
\* boolean, a plain object
Values ==
    {[type |-> "number", tenths |-> n] : n \in NumberArgs}
        \cup {[type |-> "string", text |-> t] : t \in Texts}
        \cup {[type |-> ty] : ty \in {"null", "boolean", "object"}}

\* the normalize functions are called with the value v
NormalizeCall(v) ==
    /\ arg' = v
    /\ normalized' = NotReturned
    /\ UNCHANGED <<trips, vehicles, vehicleCache, dbUp, procVars, dispatched, histVars>>
    /\ served' = NoResponse
    /\ UNCHANGED <<now, rosterVars>>

\* they return
NormalizeReturn ==
    /\ arg # NoValue
    /\ ~normalized.returned
    /\ normalized' = [odometer |-> normalizeOdometerMilesOf(arg),
                      distance |-> normalizeDistanceMilesOf(arg),
                      returned |-> TRUE]
    /\ UNCHANGED arg
    /\ UNCHANGED <<trips, vehicles, vehicleCache, dbUp, procVars, dispatched, histVars>>
    /\ served' = NoResponse
    /\ UNCHANGED <<now, rosterVars>>

\* ------------------------------------------------------- specifications

\* the steps of webhook request p, its items drawn from S
Request(p, S, budget, log) ==
    \/ Receive(p)
    \/ \E shape \in PayloadShapes : \E n \in 0..MaxBatch : Unpack(p, shape, n, budget)
    \/ Finish(p)
    \/ \E e \in S : ItemThrows(p, e)
    \/ \E e \in S : ItemSkipped(p, e)
    \/ \E e \in S : TripPhaseRead(p, e)
    \/ \E e \in S : VehicleItem(p, e)
    \/ TripWrite(p)
    \/ ProcessVehicle(p)
    \/ \E t \in TripIds : OdometerWrite(p, t)
    \/ EndItem(p, log)

\* a dispatch-layer write to one of the trips T, its payload one of R; at any
\* point of the requests, or only between their items
Dispatch(T, R, anytime) ==
    \E t \in T : \E r \in R :
        /\ anytime \/ Quiet
        /\ TripStatusUpdate(t, r[1], r[2], r[3])

\* an item that is not an object, and an object with no event type
OddItems == {NullItem, [BaseEv EXCEPT !.vehicleId = "V1", !.odometer = 1609]}

\* the events of vehicle V1, whose trip is t1
TripItems == ItemsV1 \cup ItemsSpelled \cup ItemsDistance \cup OddItems

\* webhook requests one after another, dispatch writes between their items
Next ==
    \/ Request("p1", TripItems, MaxEvents, FALSE)
    \/ Dispatch({"t1"}, DriverReports, FALSE)

Spec == Init /\ [][Next]_vars

\* the events two overlapping requests race on
RaceItems ==
    {[BaseEv EXCEPT !.eventType = ty, !.vehicleId = "V1", !.odometer = r[1],
                    !.latitude = r[2], !.longitude = r[3], !.timestamp = r[4]] :
        ty \in {"TRIP_START", "TRIP_END", "GPS_MESSAGE"},
        r \in {<<1609, Null, Null, Null>>, <<2414, 33, -112, 30>>}} \cup OddItems

\* two webhook requests interleaved at every await, dispatch writes only
\* while neither is in flight
NextConcurrent ==
    \/ \E p \in Procs : Request(p, RaceItems, MaxEvents, FALSE)
    \/ Dispatch({"t1"}, DriverReports, FALSE)

SpecConcurrent == Init /\ [][NextConcurrent]_vars

\* one webhook request, with dispatch writes at any point of it
NextDispatchRace ==
    \/ Request("p1", RaceItems, MaxEvents, FALSE)
    \/ Dispatch({"t1"}, DriverReports, TRUE)

SpecDispatchRace == Init /\ [][NextDispatchRace]_vars

\* the items of the error-handling scenarios: every way of naming the
\* vehicle, ill-typed fields, items that are not objects
DeliveryItems ==
    ItemsKeys \cup ItemsIgnition \cup OddItems
        \cup {e \in ItemsV1 : e.odometer = 1609 /\ e.latitude = 33}

\* the driver app reporting a status alone
StatusReports == {r \in DriverReports : r[2] = Null /\ r[3] = Null}

\* webhook requests one after another over a store that comes and goes
NextDelivery ==
    \/ Request("p1", DeliveryItems, MaxEvents, FALSE)
    \/ Dispatch({"t1"}, StatusReports, FALSE)
    \/ StoreFlip

SpecDelivery == Init /\ [][NextDelivery]_vars

\* webhook requests one after another over a store that is reachable
\* throughout, or unreachable throughout
NextSteadyStore ==
    \/ Request("p1", DeliveryItems, MaxEvents, FALSE)
    \/ Dispatch(TripIds, StatusReports, FALSE)

SpecSteadyStore == Init /\ [][NextSteadyStore]_vars

\* TripEnd events of V1: a reading at 10 s and a higher one at 30 s
EndItems ==
    {[BaseEv EXCEPT !.eventType = "TRIP_END", !.vehicleId = "V1", !.odometer = r[1],
                    !.timestamp = r[2]] : r \in {<<1609, 10>>, <<2414, 30>>}}

\* how many items the replay scenario takes
MaxReplay == 3

\* trip t1 as the driver app leaves it at pickup: PICKED_UP, pickupOdometer 77
InitOrdering ==
    InitWith([NewTrips EXCEPT !["t1"] =
                 PrismaUpdate(@, StatusUpdateData("PICKED_UP", 77, Null))], TRUE)

\* webhook requests of TripEnd events (and a location event) one after
\* another, each item processed to the end appended to the history
NextOrdering ==
    Request("p1", EndItems \cup OddItems \cup
                  {[BaseEv EXCEPT !.eventType = "GPS_MESSAGE", !.vehicleId = "V1"]},
            MaxReplay, TRUE)

SpecOrdering == InitOrdering /\ [][NextOrdering]_vars

\* TripStart and TripEnd events of V1 with a position and a time, and a
\* location event
FieldItems ==
    {[BaseEv EXCEPT !.eventType = ty, !.vehicleId = "V1", !.odometer = r[1],
                    !.latitude = r[2], !.longitude = r[3], !.timestamp = r[4]] :
        ty \in {"TRIP_START", "TRIP_END", "GPS_MESSAGE"},
        r \in {<<1609, 33, -112, 10>>, <<2414, 35, -110, 30>>}}
        \cup OddItems

\* a dispatcher's edit of trip t, between the items of the requests
Edit(T, D) ==
    \E t \in T : \E dto \in D : Quiet /\ TripsUpdate(t, dto)

\* webhook requests one after another while the dispatcher edits the trip's
\* addresses and the driver reports statuses
NextFields ==
    \/ Request("p1", FieldItems, MaxEvents, FALSE)
    \/ Dispatch({"t1"}, StatusReports, FALSE)
    \/ Edit({"t1"}, CoordinatePatches)

SpecFields == Init /\ [][NextFields]_vars

\* location events and events of a type the switch does not know, of V1:
\* standing, on the road with an address, standing with the ignition off;
\* TripStart events of V2 and of a vehicle named by deviceId only; an event
\* with no identifier; a null item and an item with no event type
CacheItems ==
    {[BaseEv EXCEPT !.eventType = "GPS_MESSAGE", !.vehicleId = "V1", !.speed = r[1],
                    !.address = r[2], !.ignition = r[3]] :
        r \in {<<Null, "", "">>, <<45, "A", "">>, <<Null, "A", "OFF">>}}
        \cup {[BaseEv EXCEPT !.eventType = "ENGINE_FAULT", !.vehicleId = "V1"],
              [BaseEv EXCEPT !.eventType = "TRIP_START", !.vehicleId = "V2"],
              [BaseEv EXCEPT !.eventType = "TRIP_START", !.deviceId = "V1"],
              [BaseEv EXCEPT !.eventType = "GPS_MESSAGE"]}
        \cup OddItems

\* the steps of webhook request p while no trip is in progress
IdleFleetRequest(p, S, budget) ==
    \/ Receive(p)
    \/ \E shape \in PayloadShapes : \E n \in 0..MaxBatch : Unpack(p, shape, n, budget)
    \/ Finish(p)
    \/ \E e \in S : ItemThrows(p, e)
    \/ \E e \in S : ItemSkipped(p, e)
    \/ \E e \in S : TripPhaseRead(p, e)
    \/ \E e \in S : VehicleItem(p, e)
    \/ ProcessVehicle(p)
    \/ EndItem(p, FALSE)

\* the steps the clock takes
TickSteps == {10, 11}

\* the token endpoint answering with a token of the default lifetime, or
\* failing; the roster endpoint answering with a roster, or failing
PlainAuthReplies == {r \in AuthReplies : r.access_token = r.ok /\ r.expires_in = Null}
PlainFetchReplies == {"ok", "500"}

\* the service over a reachable store
InitCache == InitWith(NewTrips, TRUE)

\* webhook requests one after another, the vehicle roster synchronised by
\* one caller, the cache read, and time passing
NextCache ==
    \/ IdleFleetRequest("p1", CacheItems, MaxEvents)
    \/ Roster("c1", {"Vehicles"}, PlainAuthReplies, PlainFetchReplies,
              SingleEntry(RosterVehicles), FALSE, FALSE)
    \/ Quiet /\ ReadCache
    \/ \E d \in TickSteps : Quiet /\ Tick(d)

SpecCache == InitCache /\ [][NextCache]_vars

\* the service with its credentials configured or not
InitAuth == \E cfg \in BOOLEAN : InitConfigured(NewTrips, TRUE, cfg)

\* the rosters of the credential specification: one vehicle, one driver
AuthVehicleRosters == SingleEntry({[BaseVehicle EXCEPT !.vin = "V1"]})
AuthDriverRosters == SingleEntry(RosterDrivers)

\* two callers fetching rosters at the same time, and time passing
NextAuth ==
    \/ Roster("c1", RosterKinds, AuthReplies, FetchReplies, AuthVehicleRosters, TRUE, FALSE)
    \/ Roster("c2", RosterKinds, AuthReplies, FetchReplies, AuthVehicleRosters, TRUE, FALSE)
    \/ DriverRoster("c1", FetchReplies, AuthDriverRosters, FALSE)
    \/ DriverRoster("c2", FetchReplies, AuthDriverRosters, FALSE)
    \/ \E d \in TickSteps : Tick(d)

SpecAuth == InitAuth /\ [][NextAuth]_vars

\* the vehicle roster entries of the sync specification: null, and VX, which
\* the store does not hold
SyncVehicleEntries ==
    {NullEntry,
     [BaseVehicle EXCEPT !.vin = "VX", !.speed = 45, !.latitude = 34, !.longitude = -111]}

\* the driver roster entries of the sync specification: null; a driver the
\* store does not know; a driver with no email
SyncDriverEntries ==
    {[BaseDriver EXCEPT !.kind = "null"],
     [BaseDriver EXCEPT !.id = "d2", !.email = "B@X "],
     [BaseDriver EXCEPT !.id = "d3"]}

\* the service over a store that is reachable or not
InitSync == \E up \in BOOLEAN : InitWith(NewTrips, up)

\* vehicle and driver syncs one after another, over rosters of up to
\* MaxRoster entries, while the store comes and goes
NextSync ==
    \/ Roster("c1", RosterKinds, PlainAuthReplies, PlainFetchReplies,
              Rosters(SyncVehicleEntries), TRUE, TRUE)
    \/ DriverRoster("c1", PlainFetchReplies, Rosters(SyncDriverEntries), TRUE)
    \/ StoreFlip

SpecSync == InitSync /\ [][NextSync]_vars

\* location events of V1 without a timestamp, with a timestamp text that is
\* no date, with one of 10 ms and with one of 10 minutes after the epoch; a
\* TripStart event of V2; the odd items
StampItems ==
    {[BaseEv EXCEPT !.eventType = "GPS_MESSAGE", !.vehicleId = "V1", !.speed = 45,
                    !.timestamp = ts] : ts \in {Null, InvalidTime, 10, 600000}}
        \cup {[BaseEv EXCEPT !.eventType = "TRIP_START", !.vehicleId = "V2"]}
        \cup OddItems

\* webhook requests in the first minute; once their items are processed time
\* passes, and the cache is read
NextStamps ==
    \/ IdleFleetRequest("p1", StampItems, MaxEvents)
    \/ Quiet /\ ReadCache
    \/ \E d \in TickSteps : (Quiet /\ taken = MaxEvents) /\ Tick(d)

SpecStamps == InitCache /\ [][NextStamps]_vars

\* location and TripEnd events of V1 with readings of 112.6, 160.9 and
\* 241.4 km (70, 100 and 150 miles), none with a trip distance of its own
MilesItems ==
    {[BaseEv EXCEPT !.eventType = ty, !.vehicleId = "V1", !.odometer = o] :
        ty \in {"GPS_MESSAGE", "TRIP_END"}, o \in {1126, 1609, 2414}}
        \cup OddItems

\* webhook requests one after another on the trip picked up at 77 miles, and
\* no other writer
NextMiles == Request("p1", MilesItems, MaxReplay, FALSE)

SpecMiles == InitOrdering /\ [][NextMiles]_vars

\* events of V1 and of VX, which the store does not hold: location events
\* on the road, TripEnd events standing
PayloadItems ==
    {[BaseEv EXCEPT !.eventType = r[1], !.vehicleId = k, !.odometer = 1609, !.speed = r[2]] :
        r \in {<<"GPS_MESSAGE", 45>>, <<"TRIP_END", Null>>}, k \in {"V1", "VX"}}
        \cup OddItems

\* webhook requests one after another on the trip picked up at 77 miles, each
\* item processed to the end appended to the history
NextPayload == Request("p1", PayloadItems, MaxEvents, TRUE)

SpecPayload == InitOrdering /\ [][NextPayload]_vars

\* the normalize functions called with one value after another
NextNormalize ==
    \/ \E v \in Values : NormalizeCall(v)
    \/ NormalizeReturn

SpecNormalize == Init /\ [][NextNormalize]_vars

\* the steps a request or a sync takes by itself, with no call to the store
\* or to the fleet API to wait for
OwnSteps ==
    \/ \E shape \in PayloadShapes : \E n \in 0..MaxBatch : Unpack("p1", shape, n, MaxEvents)
    \/ Finish("p1")
    \/ \E e \in RaceItems : ItemThrows("p1", e)
    \/ \E e \in RaceItems : ItemSkipped("p1", e)
    \/ \E e \in RaceItems : VehicleItem("p1", e)
    \/ EndItem("p1", FALSE)
    \/ SyncDone("c1", FALSE)

\* a webhook request, and between its items dispatch writes and the steps of
\* a vehicle sync
NextAwaited ==
    \/ Request("p1", RaceItems, MaxEvents, FALSE)
    \/ Dispatch({"t1"}, DriverReports, FALSE)
    \/ Roster("c1", {"Vehicles"}, PlainAuthReplies, PlainFetchReplies,
              AuthVehicleRosters, FALSE, FALSE)

\* the event loop runs every continuation that is ready; no step is promised
\* that waits for the store or the fleet API to answer, since neither fetch
\* nor a store call is given a timeout
SpecAwaited == Init /\ [][NextAwaited]_vars /\ WF_vars(OwnSteps)

\* the TripStart event of vehicle V1 at 160.9 km, 33 degrees north and 112
\* west, with no speed and with a speed of 45
ExampleEvents ==
    {[BaseEv EXCEPT !.eventType = "TRIP_START", !.serialNumber = "V1", !.odometer = 1609,
                    !.latitude = 33, !.longitude = -112, !.speed = sp] : sp \in {Null, 45}}

\* that event, a position report further on, and the odd items
ExampleItems ==
    ExampleEvents
        \cup {[BaseEv EXCEPT !.eventType = "GPS_MESSAGE", !.serialNumber = "V1",
                             !.odometer = 2414, !.latitude = 34, !.longitude = -111]}
        \cup OddItems

\* webhook requests one after another, dispatch writes between their items
NextExample ==
    \/ Request("p1", ExampleItems, MaxEvents, FALSE)
    \/ Dispatch({"t1"}, DriverReports, FALSE)

SpecExample == Init /\ [][NextExample]_vars

\* two trips of vehicle V1 active at once: t1 on its way, t2 picked up at 77
TwoActiveTrips ==
    [t \in TripIds |->
        IF t = "t1" THEN [NewTrip("dbv1") EXCEPT !.status = "EN_ROUTE"]
        ELSE PrismaUpdate(NewTrip("dbv1"), StatusUpdateData("PICKED_UP", 77, Null))]

InitTwoTrips == InitWith(TwoActiveTrips, TRUE)

\* webhook requests one after another, and no other writer
NextTwoTrips == Request("p1", ExampleItems, MaxEvents, FALSE)

SpecTwoTrips == InitTwoTrips /\ [][NextTwoTrips]_vars

\* ---------------------------------------------------------------- claims

\* a step of a webhook request (the dispatch layer's steps count its writes)
TelemetryStep == dispatched' = dispatched

\* C1: once a trip's pickupOdometer holds a value, no step of webhook
\* processing changes it, whatever events are processed one after another.
C1_PickupOdometerWrittenOnce ==
    [][\A t \in TripIds :
          (TelemetryStep /\ trips[t].pickupOdometer # Null)
              => trips'[t].pickupOdometer = trips[t].pickupOdometer]_vars

\* request p is about to write pickupOdometer on trip t, from a read that
\* found it unset
PendingPickup(p, t) ==
    \/ pc[p] = "tripWrite" /\ tgt[p] = t /\ "pickupOdometer" \in DOMAIN upd[p]
    \/ pc[p] = "uoWrite" /\ t \in DOMAIN pend[p]
          /\ "pickupOdometer" \in DOMAIN pend[p][t]

\* C2: with two webhook requests for one vehicle interleaved, processing is
\* serialized: a request that is about to write pickupOdometer, having read it
\* unset, never finds that the other request has written it in the meantime.
C2_NoStalePickupWrite ==
    \A p \in Procs : \A t \in TripIds :
        PendingPickup(p, t) => trips[t].pickupOdometer = Null

\* C3: a pickupOdometer the dispatch layer records between a request's read
\* of the trip and its update is the stored value once the request is done
\* with the item.
C3_ManualPickupSurvives ==
    (recorded # NoRecord /\ pc["p1"] = "end")
        => trips[recorded[1]].pickupOdometer = recorded[2]

\* C4: no step of webhook processing changes the status of any trip.
C4_StatusNeverWritten ==
    [][TelemetryStep => \A t \in TripIds : trips'[t].status = trips[t].status]_vars

\* C4 witness: a TripEnd event has filled dropoff fields of a PICKED_UP trip
C4_Witness ==
    /\ pc["p1"] = "end"
    /\ HandlerOf(EventTypeOf(ev["p1"])) = "tripEnd"
    /\ trips["t1"].status = "PICKED_UP"
    /\ trips["t1"].dropoffOdometer = 150
    /\ trips["t1"].tripMiles = 730
    /\ trips["t1"].completedLat = 33

\* C5: for a trip with pickupOdometer set, after TripEnd events E1 (lower
\* odometer, earlier time) then E2 (higher odometer, later time) the trip's
\* dropoffOdometer and tripMiles are those of E2, and they still are after a
\* later duplicate of E1.
C5_LaterReadingKept ==
    (/\ Quiet
     /\ Len(history) \in {2, 3}
     /\ \A i \in 1..Len(history) : history[i].eventType = "TRIP_END"
     /\ history[1].odometer < history[2].odometer
     /\ history[1].timestamp < history[2].timestamp
     /\ Len(history) = 3 => history[3] = history[1])
        => /\ trips["t1"].dropoffOdometer = normalizeOdometerMiles(history[2].odometer)
           /\ trips["t1"].tripMiles =
                (normalizeOdometerMiles(history[2].odometer) - trips["t1"].pickupOdometer) * 10

\* C6: an exception while one item is processed does not keep the later items
\* of the payload from being processed: no request ends with items left.
C6_LaterItemsProcessed ==
    \A p \in Procs : pc[p] = "idle" => rem[p] = 0

\* C7: with the durable store unreachable throughout, every item that carries a vehicle
\* key and an event type has been written to the cache and published exactly
\* once when its handler returns, and the request is never answered with an
\* error.
C7_StoreDownStillCaches ==
    \A p \in Procs :
        /\ ~dbUp => resp[p] # "error"
        /\ (~dbUp /\ pc[p] = "end" /\ CacheVehicleKey(ev[p]) # ""
                /\ EventTypeOf(ev[p]) # "")
              => (cached[p] /\ emitted[p] = 1)

\* C8: every webhook request ends acknowledged with {status: 'received'},
\* whatever the payload's shape and whatever happened while it was processed.
C8_AlwaysAcknowledged ==
    [][\A p \in Procs :
          (pc[p] # "idle" /\ pc'[p] = "idle") => resp'[p] = "received"]_vars

\* C8 witness: a request ended by an exception, items left, was acknowledged
C8_Witness ==
    /\ pc["p1"] = "idle"
    /\ resp["p1"] = "received"
    /\ rem["p1"] > 0

\* the spellings of the safety types, and the types the switch does not know
SafetyOrUnknownTypes ==
    {"Over Speeding", "OVER_SPEEDING", "Hard Acceleration", "HARD_ACCELERATION",
     "Hard Brake", "HARD_BRAKE", "ENGINE_FAULT", "trip_start"}

InactiveStatuses == {"SCHEDULED", "COMPLETED", "CANCELLED"}

\* C10: a step of webhook processing changes no trip whose status is
\* SCHEDULED, COMPLETED or CANCELLED, and no trip at all when the vehicle of
\* the events has no trip in status EN_ROUTE, ARRIVED or PICKED_UP.
C10_InactiveTripsUntouched ==
    [][TelemetryStep =>
          /\ \A t \in TripIds :
               trips[t].status \in InactiveStatuses => trips'[t] = trips[t]
          /\ (\A t \in TripIds : trips[t].vehicleId = "dbv1"
                                   => trips[t].status \in InactiveStatuses)
                => trips' = trips]_vars

\* the trip fields telemetry fills in
FirstWriterFields ==
    {"tripStartLat", "tripStartLng", "pickupLat", "pickupLng", "completedLat",
     "completedLng", "dropoffLat", "dropoffLng", "actualDropoffTime"}

\* C11: each of the start, pickup, completion and dropoff coordinates and the
\* actual dropoff time, taken on its own, is never changed by a webhook event
\* once it is non-null, also when only one coordinate of a pair was set
C11_FieldsWrittenOnce ==
    [][TelemetryStep =>
         \A t \in TripIds : \A f \in FirstWriterFields :
             trips[t][f] # Null => trips'[t][f] = trips[t][f]]_vars

\* C12: a write to the vehicle cache, by a webhook event or by the vehicle
\* sync, never clears an address the entry held before.
C12_AddressPreserved ==
    [][\A k \in CacheKeys :
          (Has(vehicleCache, k) /\ vehicleCache[k].address # "")
              => vehicleCache'[k].address # ""]_vars

\* C13: every answer of getCachedVehicles reports status offline for each
\* entry whose lastLocationUpdate is more than 10 minutes before the read,
\* whatever speed and status the entry stores, and the read leaves the cache
\* as it was.
C13_StaleReportedOffline ==
    [][served' # NoResponse =>
          /\ vehicleCache' = vehicleCache
          /\ \A k \in DOMAIN vehicleCache :
                served'.at - vehicleCache[k].lastLocationUpdate > 10
                    => served'.rows[k].status = "offline"]_vars

\* C13 witness: an entry stored as moving at 45 mph was read more than ten
\* minutes after its last update, and the answer reports it offline
C13_Witness ==
    \E k \in DOMAIN served.rows :
        /\ k \in DOMAIN vehicleCache
        /\ served.at - vehicleCache[k].lastLocationUpdate > 10
        /\ vehicleCache[k].status = "moving"
        /\ vehicleCache[k].currentSpeed = 45
        /\ served.rows[k].status = "offline"
        /\ served.rows[k].currentSpeed = 45

\* C14: every answer of getCachedVehicles reports, for each entry whose last
\* update is at most 10 minutes old, status moving when its speed is greater
\* than 2 and idle otherwise, whether an event or the sync wrote the entry.
C14_FreshStatusBySpeed ==
    [][served' # NoResponse =>
          \A k \in DOMAIN vehicleCache :
              served'.at - vehicleCache[k].lastLocationUpdate <= 10
                  => served'.rows[k].status =
                        IF vehicleCache[k].currentSpeed > 2 THEN "moving" ELSE "idle"]_vars

\* C15: no step (webhook event, sync, read, passage of time) removes a key
\* from the cache, and every answer of getCachedVehicles holds a row for
\* each key of the cache, one per key.
C15_EntriesNeverRemoved ==
    [][/\ DOMAIN vehicleCache \subseteq DOMAIN vehicleCache'
       /\ served' # NoResponse => DOMAIN served'.rows = DOMAIN vehicleCache]_vars

\* C15 witness: V1's entry, written by an event, is returned by a read more
\* than ten minutes later, after the sync has written V2's entry
C15_Witness ==
    /\ DOMAIN served.rows = {"V1", "V2"}
    /\ served.rows["V1"].lastLocationUpdate = 0
    /\ served.rows["V1"].ignitionStatus # "Unknown"
    /\ served.rows["V2"].ignitionStatus = "Unknown"
    /\ served.rows["V2"].lastLocationUpdate > 0
    /\ served.at - served.rows["V1"].lastLocationUpdate > 10
    /\ taken > 0

\* C16: every item that carries a vehicle key has been written to the cache
\* when its handling ends, whatever its event type, an unrecognized type and
\* no type at all included.
C16_KeyedItemsCached ==
    \A p \in Procs :
        (pc[p] = "end" /\ CacheVehicleKey(ev[p]) # "") => cached[p]

\* request p takes an item with no vehicle identifier: an object with none of
\* the aliases, or a null item (the one take step that ends the request)
TakesUnidentified(p) ==
    /\ pc[p] = "loop"
    /\ taken' = taken + 1
    /\ rem'[p] = rem[p] - 1
    /\ pc'[p] = "idle" \/ CacheVehicleKey(ev'[p]) = ""

\* request p takes a further step on an item with no vehicle identifier
HandlesUnidentified(p) ==
    /\ pc[p] \notin {"idle", "unpack", "loop"}
    /\ pc'[p] # pc[p]
    /\ CacheVehicleKey(ev[p]) = ""

\* C17: an item with no vehicle identifier under any alias causes no cache
\* write, no broadcast and no store write, is not treated as an error, and
\* the request goes on to the remaining items.
C17_UnidentifiedItemDropped ==
    [][\A p \in Procs :
          (TakesUnidentified(p) \/ HandlesUnidentified(p))
              => /\ UNCHANGED <<vehicleCache, vehicles, trips>>
                 /\ ~cached'[p] /\ emitted'[p] = 0
                 /\ pc'[p] # "idle"
                 /\ resp'[p] = resp[p]]_vars

\* C18: while no valid token is cached, concurrent callers of authenticate
\* share one request to the token endpoint: at no time do two callers each
\* await an answer of their own.
C18_SingleFlight ==
    Cardinality({c \in Callers : cpc[c] \in AuthPcs}) <= 1

\* C19: a call of authenticate returns the cached token, sending nothing to
\* the token endpoint, exactly when a token is cached and the time is before
\* its expiry minus 5 minutes; otherwise it does not return before it has
\* sent a request, and whoever proceeds to the roster endpoint either was
\* handed the valid cached token or has awaited the token endpoint.
C19_CachedTokenReused ==
    [][LET valid == accessToken # Null /\ now < tokenExpiresAt - 5
           returned == {c \in Callers : cpc[c] = "idle" /\ cpc'[c] \in FetchPcs}
       IN /\ (syncs' = syncs + 1 /\ valid)
               => /\ authRequests' = authRequests
                  /\ \E c \in returned : ctok'[c] = accessToken
          /\ (syncs' = syncs + 1 /\ ~valid)
               => /\ returned = {}
                  /\ authRequests' = authRequests + 1 \/ cpc' = cpc
          /\ \A c \in Callers :
                (cpc[c] \notin FetchPcs /\ cpc'[c] \in FetchPcs)
                    => (c \in returned /\ valid) \/ cpc[c] \in AuthPcs]_vars

\* C19 witness: the second roster call, ten minutes or more after the first,
\* was handed the token the first one obtained
C19_Witness ==
    /\ syncs = 2
    /\ authRequests = 1
    /\ now >= 10
    /\ \E c \in Callers : cpc[c] \in FetchPcs /\ ctok[c] = accessToken

\* C20: once a roster fetch was answered 401, the cached token is gone, and
\* the next call of authenticate sends a request to the token endpoint
\* although the old token's expiry has not been reached.
C20_ReauthenticatesAfter401 ==
    [][/\ invalidated' => accessToken' = Null
       /\ (invalidated /\ syncs' = syncs + 1) => authRequests' = authRequests + 1]_vars

\* C20 witness: after a 401 a caller awaits the token endpoint for a second
\* token while the first token's expiry is more than 5 minutes away
C20_Witness ==
    /\ invalidated
    /\ authRequests = 2
    /\ now < tokenExpiresAt - 5
    /\ \E c \in Callers : cpc[c] \in AuthPcs

\* C21: an authentication attempt that fails (no credentials, an answer that
\* is not OK or carries no access_token) ends the call and leaves the cached
\* token and its expiry exactly as they were, so that no later call is handed
\* a token on the strength of it.
C21_FailedAuthKeepsToken ==
    [][LET threw == \/ \E c \in Callers : cpc[c] \in AuthPcs /\ cpc'[c] = "idle"
                    \/ syncs' = syncs + 1 /\ cpc' = cpc
       IN threw => /\ accessToken' = accessToken
                   /\ tokenExpiresAt' = tokenExpiresAt
                   /\ \A c \in Callers : ctok'[c] \in {Null, ctok[c]}]_vars

\* C21 witness: two roster calls each sent a request to the token endpoint,
\* every answer was a failure, and no token is cached
C21_Witness ==
    /\ configured
    /\ syncs = 2
    /\ authRequests = 2
    /\ \A c \in Callers : cpc[c] = "idle"
    /\ accessToken = Null
    /\ tokenExpiresAt = Null

\* C22: once a sync has fetched its roster it ends only by returning its
\* result after the last roster entry: a failure on one entry is counted in
\* the result's errors and the entries after it are still processed
C22_ItemFailureDoesNotAbort ==
    [][\A c \in Callers :
          cpc[c] \in SyncPcs =>
              /\ cpc'[c] = "idle" => crem[c] = <<>> /\ lastRun'.roster = croster[c]
              /\ cpc'[c] # "idle" /\ crem'[c] # crem[c] =>
                    /\ crem'[c] = Tail(crem[c])
                    /\ cres'[c].errors \in {cres[c].errors, cres[c].errors + 1}]_vars

\* a sync of the kind returns a result counted over a roster it also
\* returned from the time before, both without an error
SecondRun(c, kind) ==
    /\ cpc[c] = SyncPc(kind)
    /\ cpc'[c] = "idle"
    /\ crem[c] = <<>>
    /\ lastRun.kind = SyncPc(kind)
    /\ lastRun.roster = croster[c]
    /\ lastRun.result.errors = 0
    /\ cres[c].errors = 0

IsNumeric(v) ==
    \/ v.type = "number"
    \/ v.type = "string" /\ ~ReadFloat(v.text).nan /\ ReadFloat(v.text).used = Len(v.text)

\* C24: for a numeric value above zero normalizeOdometerMiles returns the
\* value times 0.621371 rounded to a whole number and normalizeDistanceMiles
\* the same rounded to one decimal; for a numeric value of zero or less, and
\* for every value that is not numeric, both return null
C24_NormalizeMiles ==
    normalized.returned =>
        LET raw == parseFloat(arg)
        IN IF IsNumeric(arg) /\ raw.m > 0
           THEN /\ normalized.odometer = ToMilesRoundedOf(raw.m, raw.d)
                /\ normalized.distance = ToMilesTenthsOf(raw.m, raw.d)
           ELSE /\ normalized.odometer = Null
                /\ normalized.distance = Null

\* C25: every webhook request and every sync that has started comes to an
\* end, also when the store or the fleet API never answers
C25_NoOperationBlocksForever ==
    /\ \A p \in Procs : pc[p] # "idle" ~> pc[p] = "idle"
    /\ \A c \in Callers : cpc[c] # "idle" ~> cpc[c] = "idle"

\* C26: an item of any type that wrote the cache has been published exactly
\* once, an item that did not has not been published, and the message is
\* published with the item's cache entry in place
C26_PublishedOnceAfterCacheWrite ==
    /\ [](\A p \in Procs : emitted[p] = (IF cached[p] THEN 1 ELSE 0))
    /\ [][\A p \in Procs :
            emitted'[p] > emitted[p] =>
                /\ Has(vehicleCache', CacheVehicleKey(ev[p]))
                /\ vehicleCache'[CacheVehicleKey(ev[p])] = CachedVehicleOf(ev[p], now)]_vars

\* a TripStart item has been published, with the store out of reach
C26_Witness ==
    \E p \in Procs :
        /\ pc[p] = "end"
        /\ emitted[p] = 1
        /\ HandlerOf(EventTypeOf(ev[p])) = "tripStart"
        /\ ~dbUp

\* the trip of V1 is on its way with no pickup odometer and no start
\* coordinates
AwaitsStart(trip) ==
    /\ trip.status = "EN_ROUTE"
    /\ trip.pickupOdometer = Null
    /\ trip.tripStartLat = Null
    /\ trip.tripStartLng = Null

\* the trip holds what the example event reports
HoldsStart(trip) ==
    /\ trip.pickupOdometer = 100
    /\ trip.tripStartLat = 33
    /\ trip.tripStartLng = -112

\* C27: the TripStart event of V1 at 160.9 km and 33, -112, processed over a
\* reachable store while the trip of V1 is EN_ROUTE with no pickup odometer
\* and no start coordinates, leaves the trip with pickupOdometer 100 and
\* those start coordinates, and leaves a cache entry of V1 that is moving at
\* a speed above 2 and idle otherwise. (The handler is followed step by
\* step: it decides on a write, the write sets the three fields, and the
\* rest of the handler leaves them.)
C27_ExampleTripStart ==
    /\ normalizeOdometerMilesOf([type |-> "string", text |-> <<"1", "6", "0", ".", "9">>]) = 100
    /\ [][\A p \in Procs :
            /\ (pc[p] = "loop" /\ pc'[p] # "loop" /\ ev'[p] \in ExampleEvents
                    /\ dbUp /\ AwaitsStart(trips["t1"]))
                  => pc'[p] = "tripWrite" /\ tgt'[p] = "t1"
            /\ (pc[p] = "tripWrite" /\ pc'[p] # "tripWrite" /\ ev[p] \in ExampleEvents
                    /\ dbUp /\ AwaitsStart(trips["t1"]))
                  => HoldsStart(trips'["t1"])
            /\ (pc[p] \in {"pv", "uoWrite"} /\ ev[p] \in ExampleEvents
                    /\ HoldsStart(trips["t1"]))
                  => HoldsStart(trips'["t1"])]_vars
    /\ [](\A p \in Procs :
            (pc[p] = "end" /\ ev[p] \in ExampleEvents) =>
                /\ Has(vehicleCache, "V1")
                /\ vehicleCache["V1"].status =
                      IF vehicleCache["V1"].currentSpeed > 2 THEN "moving" ELSE "idle")

\* the example event has been processed: the trip holds its reading and its
\* coordinates, and the cache entry of V1 is idle
C27_Witness ==
    \E p \in Procs :
        /\ pc[p] = "end"
        /\ ev[p] \in ExampleEvents
        /\ ev[p].speed = Null
        /\ trips["t1"].status = "EN_ROUTE"
        /\ HoldsStart(trips["t1"])
        /\ trips["t1"].pickupLat = 33
        /\ vehicleCache["V1"].status = "idle"

\* C28: a trip write of the reconciler (on TripStart, on TripEnd, by
\* updateActiveTripOdometer) changes no trip other than its own and, of that
\* trip, no field other than those of its update data: every other field
\* keeps the value the store holds at the write, a dispatch write made since
\* the reconciler read the trip included
C28_OnlyDecidedFieldsAssigned ==
    [][\A p \in Procs : \A t \in TripIds : \A f \in DOMAIN trips[t] :
          /\ (pc[p] = "tripWrite" /\ pc'[p] # "tripWrite"
                  /\ (t # tgt[p] \/ f \notin DOMAIN upd[p]))
                => trips'[t][f] = trips[t][f]
          /\ (pc[p] = "uoWrite" /\ pend'[p] # pend[p]
                  /\ (t \notin DOMAIN pend[p] \/ f \notin DOMAIN pend[p][t]))
                => trips'[t][f] = trips[t][f]]_vars

\* the dispatcher reported the pickup while the TripStart handler held its
\* read of the trip; the handler has written the start coordinates, and the
\* trip is still PICKED_UP
C28_Witness ==
    /\ dispatched = 2
    /\ recorded = <<"t1", 77>>
    /\ pc["p1"] = "pv"
    /\ HandlerOf(EventTypeOf(ev["p1"])) = "tripStart"
    /\ trips["t1"].status = "PICKED_UP"
    /\ trips["t1"].tripStartLat = 33

\* C29: with two trips of the vehicle active, one event changes at most one
\* of them
C29_OneEventOneTrip ==
    taken = 1 => Cardinality({t \in TripIds : trips[t] # TwoActiveTrips[t]}) <= 1

\* C30: once an event of any type has been processed over a reachable
\* store while the trip of its vehicle is EN_ROUTE, the trip has start and
\* pickup coordinates if the event carried coordinates, and a pickup odometer
\* if it carried an odometer reading
C30_AnyEventStartsTrip ==
    \A p \in Procs :
        (pc[p] = "end" /\ dbUp /\ CacheVehicleKey(ev[p]) = "V1"
            /\ EventTypeOf(ev[p]) # "" /\ trips["t1"].status = "EN_ROUTE")
          => /\ (ev[p].latitude # Null /\ ev[p].longitude # Null)
                  => /\ trips["t1"].tripStartLat # Null
                     /\ trips["t1"].tripStartLng # Null
                     /\ trips["t1"].pickupLat # Null
                     /\ trips["t1"].pickupLng # Null
             /\ ev[p].odometer # Null => trips["t1"].pickupOdometer # Null

\* C31: once a TripEnd event, or an event of any type while the trip is
\* PICKED_UP, that carries a valid (positive) odometer reading has been
\* processed over a reachable store, the dropoffOdometer of the vehicle's
\* active trip is that reading normalized, whatever it held before
C31_DropoffOdometerRefreshed ==
    \A p \in Procs :
        (/\ pc[p] = "end" /\ dbUp
         /\ TripVehicleKey(ev[p]) = "V1"
         /\ EventTypeOf(ev[p]) # ""
         /\ ev[p].odometer # Null /\ ev[p].odometer > 0
         /\ \/ HandlerOf(EventTypeOf(ev[p])) = "tripEnd"
                  /\ trips["t1"].status \in ActiveStatuses
            \/ trips["t1"].status = "PICKED_UP")
          => trips["t1"].dropoffOdometer = normalizeOdometerMiles(ev[p].odometer)

\* request p is about to write a tripMiles on trip t
PendingTripMiles(p, t) ==
    \/ pc[p] = "tripWrite" /\ tgt[p] = t /\ "tripMiles" \in DOMAIN upd[p]
    \/ pc[p] = "uoWrite" /\ t \in DOMAIN pend[p] /\ "tripMiles" \in DOMAIN pend[p][t]

\* C32: when webhook processing writes a tripMiles it derived from odometer
\* readings (the event carries no trip distance of its own), the trip holds a
\* pickupOdometer, the event's normalized reading is strictly greater than
\* it, and the tripMiles written is strictly positive
C32_TripMilesOnlyAbovePickup ==
    [][\A p \in Procs : \A t \in TripIds :
          (/\ PendingTripMiles(p, t) /\ ~PendingTripMiles(p, t)'
           /\ dbUp
           /\ ev[p].tripDistance = Null)
            => /\ ~Falsy(trips[t].pickupOdometer)
               /\ normalizeOdometerMiles(ev[p].odometer) > trips[t].pickupOdometer
               /\ trips'[t].tripMiles > 0]_vars

\* a location event has refreshed the PICKED_UP trip, whose pickupOdometer
\* of 100 an earlier event wrote: 50 miles since pickup
C32_Witness ==
    /\ pc["p1"] = "end"
    /\ ev["p1"].eventType = "GPS_MESSAGE"
    /\ ev["p1"].odometer = 2414
    /\ trips["t1"].status = "PICKED_UP"
    /\ trips["t1"].pickupOdometer = 100
    /\ trips["t1"].dropoffOdometer = 150
    /\ trips["t1"].tripMiles = 500

\* an event type with its letters lower-cased and its spaces and underscores
\* removed, over the spellings the model draws
Folded(eventType) ==
    CASE eventType \in {"Trip Start", "TRIP_START", "trip_start"} -> "tripstart"
      [] eventType \in {"Trip End", "TRIP_END"} -> "tripend"
      [] eventType \in {"GPS MESSAGE", "GPS_MESSAGE"} -> "gpsmessage"
      [] eventType \in {"Over Speeding", "OVER_SPEEDING"} -> "overspeeding"
      [] eventType \in {"Hard Brake", "HARD_BRAKE"} -> "hardbrake"
      [] OTHER -> eventType

\* C33: an item is dispatched to the handler that every other spelling of
\* its type, differing in letter case or in space and underscore separators
\* only, is dispatched to
C33_SpellingsShareHandler ==
    \A p \in Procs : \A ty \in HandlerTypes \cup OtherSpellings :
        (pc[p] \notin {"idle", "unpack", "loop"} /\ EventTypeOf(ev[p]) # ""
            /\ Folded(ty) = Folded(EventTypeOf(ev[p])))
          => HandlerOf(ty) = HandlerOf(EventTypeOf(ev[p]))

\* C34: processing an event that carries neither latitude nor longitude
\* leaves the cached position of every vehicle and the stored position of
\* every vehicle row as they were, and puts no position of 0 into a new
\* cache entry
C34_AbsentCoordinatesKeepPosition ==
    [][\A p \in Procs :
          (/\ pc[p] = "pv" /\ pc'[p] # "pv"
           /\ ev[p].latitude = Null /\ ev[p].longitude = Null)
            => /\ \A k \in DOMAIN vehicleCache' :
                    IF Has(vehicleCache, k)
                    THEN /\ vehicleCache'[k].currentLat = vehicleCache[k].currentLat
                         /\ vehicleCache'[k].currentLng = vehicleCache[k].currentLng
                    ELSE /\ vehicleCache'[k].currentLat # 0
                         /\ vehicleCache'[k].currentLng # 0
               /\ \A v \in DOMAIN vehicles :
                    /\ vehicles'[v].currentLat = vehicles[v].currentLat
                    /\ vehicles'[v].currentLng = vehicles[v].currentLng]_vars

\* C35: with every event processed in the first minute, the lastLocationUpdate
\* of every cache entry is a valid instant no later than that minute (the
\* processing time standing in for a timestamp that is absent or cannot be
\* parsed), and a read more than 10 minutes later reports every entry offline
C35_UnparsedTimeIsProcessingTime ==
    /\ \A k \in DOMAIN vehicleCache :
          /\ vehicleCache[k].lastLocationUpdate # InvalidTime
          /\ vehicleCache[k].lastLocationUpdate \in 0..now
    /\ (served.at # Null /\ served.at > StaleMinutes)
          => \A k \in DOMAIN served.rows : served.rows[k].status = "offline"

\* C36: once the handler of a TripStart or TripEnd event that carries a
\* vehicle identifier has returned, the event has been written to the cache
\* and published once, whether or not the store holds the vehicle or an
\* active trip of it
C36_TripEventsAlsoCached ==
    \A p \in Procs :
        (/\ pc[p] = "end"
         /\ HandlerOf(EventTypeOf(ev[p])) \in {"tripStart", "tripEnd"}
         /\ CacheVehicleKey(ev[p]) # "")
          => (cached[p] /\ emitted[p] = 1)

\* C37: for a TripStart or TripEnd event being processed, the identifier the
\* cache path accepts is the one the trip handlers accept, and the lookups
\* of the two paths match the same vehicle rows
C37_PathsResolveSameVehicle ==
    \A p \in Procs :
        (/\ pc[p] \notin {"idle", "unpack", "loop"}
         /\ HandlerOf(EventTypeOf(ev[p])) \in {"tripStart", "tripEnd"}
         /\ CacheVehicleKey(ev[p]) # "")
          => /\ TripVehicleKey(ev[p]) = CacheVehicleKey(ev[p])
             /\ FindVehicles(TripVehicleKey(ev[p]), TripVehicleKey(ev[p]))
                  = FindVehicles(CacheVehicleKey(ev[p]), VehicleNameOf(ev[p]))

\* C38: with telemetry events processed one after another and no other
\* writer, a trip that holds a tripMiles (derived from odometer readings, no
\* event carrying a distance of its own) holds a dropoffOdometer and a
\* pickupOdometer, and its tripMiles is their difference
C38_TripMilesIsOdometerDifference ==
    \A t \in TripIds :
        trips[t].tripMiles # Null
          => /\ trips[t].pickupOdometer # Null
             /\ trips[t].dropoffOdometer # Null
             /\ trips[t].tripMiles
                  = (trips[t].dropoffOdometer - trips[t].pickupOdometer) * 10

\* the events of vehicle k among the items processed to the end, by position
EventsOf(k) ==
    {i \in 1..Len(history) :
        EventTypeOf(history[i]) # "" /\ CacheVehicleKey(history[i]) = k}

\* C39: an item is taken off the payload only when nothing of the item before
\* it is pending (no trip update, no cache write or message counted for it),
\* and between items the cache entry a vehicle has is the one its last event
\* produced
C39_PayloadOrderLastEventWins ==
    /\ [][\A p \in Procs :
            (taken' = taken + 1 /\ rem'[p] = rem[p] - 1)
              => /\ pc[p] = "loop"
                 /\ upd[p] = EmptyUpd /\ pend[p] = EmptyUpd
                 /\ ~cached[p] /\ emitted[p] = 0]_vars
    /\ [](Quiet =>
            \A k \in CacheKeys :
                (EventsOf(k) # {} /\ Has(vehicleCache, k)) =>
                    LET last == CHOOSE i \in EventsOf(k) : \A j \in EventsOf(k) : j <= i
                    IN vehicleCache[k] = CachedVehicleOf(history[last], now))

\* C40: every pickupOdometer and dropoffOdometer a trip holds and every
\* currentOdometer a vehicle row holds is a positive number of miles
C40_StoredOdometersPositive ==
    /\ \A t \in TripIds :
          /\ trips[t].pickupOdometer # Null => trips[t].pickupOdometer > 0
          /\ trips[t].dropoffOdometer # Null => trips[t].dropoffOdometer > 0
    /\ \A v \in DOMAIN vehicles :
          vehicles[v].currentOdometer # Null => vehicles[v].currentOdometer > 0

====
